---- MODULE Spec2Model ----
(***************************************************************************)
(* TC66C toolkit: the packet codec (lib/tc66c/decrypt.go, data.go) and the *)
(* device session (lib/tc66c, the TC66C type) as state machines.           *)
(*                                                                         *)
(* Bytes are integers 0..255, byte strings are sequences of bytes, Go      *)
(* slices s[lo:hi] are Slice(s, lo, hi) with the source's 0-based offsets. *)
(*                                                                         *)
(* SpecCodec drives the pure codec functions over bounded inputs; Spec is  *)
(* the session over an abstract serial channel; SpecPoller is the web      *)
(* client (cmd/toolkit, the Client type) with its two goroutines.          *)
(***************************************************************************)
EXTENDS Integers, Sequences, FiniteSets, TLC

\* --- codec harness ---
VARIABLES
  fixture,   \* "packet", "crc" or "none": which codec input is being driven
  inbuf,     \* the byte buffer handed to the codec function
  canon,     \* the same three block contents in the order pac1, pac2, pac3
  order,     \* order[i + 1]: which of the blocks 1..3 sits in physical slot i
  edit,      \* the one change made to the buffer: [kind, slot, pos]
  step,      \* "input", "edited" or "done"
  out        \* [fn, val]: the function applied and what it returned

codecVars == <<fixture, inbuf, canon, order, edit, step, out>>

\* --- device session ---
VARIABLES
  sess,          \* "none", "open" (NewTC66C returned a *TC66C) or "failed"
  Mode,          \* tc.Mode
  port,          \* the serial port: [open, timeout (ms), lost]
  rx,            \* bytes received from the device and not yet read
  pending,       \* bytes the device has still to send
  op,            \* the method in progress, "none" between calls
  pc,            \* the position inside it
  trace,         \* the port operations of the current (or last) call, in order
  response,      \* readResponse: the bytes accumulated so far (n = Len)
  size,          \* readResponse: the number of bytes asked for
  firmwareData,  \* UpdateFirmware: the image
  bytesSent,     \* UpdateFirmware: loop counter
  chunksSent,    \* UpdateFirmware: loop counter
  progress,      \* the progressCallback invocations of the current call
  buffer,        \* GetRecordings: bytes not yet decoded
  results,       \* GetRecordings: entries decoded so far
  ret            \* what the last call returned: [op, val, err]

sessVars ==
  <<sess, Mode, port, rx, pending, op, pc, trace, response, size, firmwareData,
    bytesSent, chunksSent, progress, buffer, results, ret>>

\* --- web client ---
VARIABLES
  client,    \* the Client c: [device, pollTicker, isPolling, mu, conn]
  handler,   \* the goroutine of handleWebSocket: [pc, cmd, resp, dev]
  pollers,   \* pollers[p]: the p-th goroutine started by "go c.pollDevice"
  devices,   \* devices[d]: the d-th session NewTC66C returned to handlePoll
  lastResp   \* the last WSResponse written to the connection

webVars == <<client, handler, pollers, devices, lastResp>>

\* ------------------------------------------------------------------------
\* Bounds of the model
\* ------------------------------------------------------------------------
\* a tampered byte is replaced by (old + d) % 256 for d in 1..MaxDelta
MaxDelta == 1
\* bytes appended to a CRC input
MaxCrcLen == 2
\* the longest firmware image
MaxFwLen == 130
\* the longest recording stream
MaxRecLen == 19
MaxStreamLen == 17
\* poll requests that reach a device in firmware mode
MaxPolls == 2

\* ------------------------------------------------------------------------
\* Program constants
\* ------------------------------------------------------------------------
BlockSize == 64
NumBlocks == 3
PacketSize == BlockSize * NumBlocks

Block1Prefix == <<112, 97, 99, 49>>
Block2Prefix == <<112, 97, 99, 50>>
Block3Prefix == <<112, 97, 99, 51>>

\* ------------------------------------------------------------------------
\* Byte helpers
\* ------------------------------------------------------------------------
Byte == 0..255

\* Go's s[lo:hi]
Slice(s, lo, hi) == SubSeq(s, lo + 1, hi)

\* bitwise XOR of two unsigned integers
Xor[a \in Nat, b \in Nat] ==
  IF a = 0 THEN b
  ELSE IF b = 0 THEN a
  ELSE (((a % 2) + (b % 2)) % 2) + 2 * Xor[a \div 2, b \div 2]

\* a uint32 as its two 16-bit halves (TLC's integers are 32-bit signed)
U32(hi, lo) == [hi |-> hi, lo |-> lo]

\* binary.LittleEndian.Uint32(b[off:off+4])
Uint32LE(b, off) ==
  U32(b[off + 3] + 256 * b[off + 4], b[off + 1] + 256 * b[off + 2])

\* binary.LittleEndian.Uint16(b[off:off+2])
Uint16LE(b, off) == b[off + 1] + 256 * b[off + 2]

\* strings.TrimRight(s, "\x00")
RECURSIVE TrimRightNul(_)
TrimRightNul(s) ==
  IF s = <<>> THEN s
  ELSE IF s[Len(s)] = 0 THEN TrimRightNul(SubSeq(s, 1, Len(s) - 1))
  ELSE s

\* ------------------------------------------------------------------------
\* Checksum engine (decrypt.go)
\* ------------------------------------------------------------------------
\* the inner loop from step i on: eight shift steps on the 16-bit accumulator,
\* XOR-ing in 0xA001 when the bit shifted out is 1
CrcShift[crc \in 0..65535, i \in 0..8] ==
  IF i = 8 THEN crc
  ELSE CrcShift[IF crc % 2 # 0 THEN Xor[crc \div 2, 40961] ELSE crc \div 2, i + 1]

\* a shift step that tests the bit after the shift instead of before it
CrcShift_LateTest[crc \in 0..65535, i \in 0..8] ==
  IF i = 8 THEN crc
  ELSE CrcShift_LateTest[IF (crc \div 2) % 2 # 0 THEN Xor[crc \div 2, 40961]
                         ELSE crc \div 2, i + 1]

CalculateCRC16Modbus_LateTest(data) ==
  LET loop[crc \in 0..65535, lo \in 0..Len(data), hi \in 0..Len(data)] ==
        IF hi = lo THEN crc
        ELSE IF hi = lo + 1 THEN CrcShift_LateTest[Xor[crc, data[hi]], 0]
        ELSE loop[loop[crc, lo, (lo + hi) \div 2], (lo + hi) \div 2, hi]
  IN loop[65535, 0, Len(data)]

\* the byte loop over data[lo+1..hi], run left to right from accumulator
\* crc; it is split in halves to keep the evaluation shallow
CalculateCRC16Modbus(data) ==
  LET loop[crc \in 0..65535, lo \in 0..Len(data), hi \in 0..Len(data)] ==
        IF hi = lo THEN crc
        ELSE IF hi = lo + 1 THEN CrcShift[Xor[crc, data[hi]], 0]
        ELSE loop[loop[crc, lo, (lo + hi) \div 2], (lo + hi) \div 2, hi]
  IN loop[65535, 0, Len(data)]

VerifyChecksum(data, expectedCRC) == CalculateCRC16Modbus(data) = expectedCRC

\* ------------------------------------------------------------------------
\* Block cipher adapter (decrypt.go)
\* ------------------------------------------------------------------------
\* the static 32-byte key
AESKey ==
  <<88, 33, 250, 86, 1, 178, 240, 38, 135, 255, 18, 4, 98, 42, 79, 176,
    134, 244, 2, 96, 129, 111, 154, 11, 167, 241, 6, 97, 154, 184, 114, 136>>

\* the key material mixed into byte j of a segment
KeyByte(j) == (AESKey[j] + AESKey[j + 16]) % 256

\* block.Decrypt on one 16-byte segment.  The library cipher is abstracted to
\* a keyed bijection on 16-byte segments that is not the identity; ECB applies
\* it to every segment independently.
AESDecryptSegment(seg) == [j \in 1..16 |-> (seg[j] + 256 - KeyByte(j)) % 256]

\* the device side: the inverse transform
AESEncryptSegment(seg) == [j \in 1..16 |-> (seg[j] + KeyByte(j)) % 256]

RECURSIVE EcbDecrypt(_, _)
EcbDecrypt(encrypted, i) ==
  IF i >= Len(encrypted) THEN <<>>
  ELSE AESDecryptSegment(Slice(encrypted, i, i + 16)) \o EcbDecrypt(encrypted, i + 16)

RECURSIVE EcbEncrypt(_, _)
EcbEncrypt(plain, i) ==
  IF i >= Len(plain) THEN <<>>
  ELSE AESEncryptSegment(Slice(plain, i, i + 16)) \o EcbEncrypt(plain, i + 16)

\* ------------------------------------------------------------------------
\* Packet codec (decrypt.go, data.go)
\* ------------------------------------------------------------------------
NoErr == "nil"
NilBuf == [nil |-> TRUE]
NilReading == [nil |-> TRUE]

\* data[offset : offset+BlockSize] for slot i
BlockAt(data, i) == Slice(data, i * BlockSize, (i + 1) * BlockSize)

\* string(blockData[0:4])
PrefixOf(blockData) == Slice(blockData, 0, 4)

\* the maps built by the detection loop: a later slot overwrites an earlier
\* slot that carries the same prefix
HasBlock(data, prefix) == \E i \in 0..(NumBlocks - 1) : PrefixOf(BlockAt(data, i)) = prefix

blockPositions(data, prefix) ==
  CHOOSE i \in 0..(NumBlocks - 1) :
    /\ PrefixOf(BlockAt(data, i)) = prefix
    /\ \A j \in 0..(NumBlocks - 1) : PrefixOf(BlockAt(data, j)) = prefix => j <= i

blocks(data, prefix) == BlockAt(data, blockPositions(data, prefix))

\* a reorder that returns the buffer as received
ReorderBlocks_NoReorder(data) ==
  IF Len(data) # PacketSize THEN [data |-> NilBuf, err |-> "invalid data size"]
  ELSE IF ~HasBlock(data, Block1Prefix) THEN [data |-> NilBuf, err |-> "missing pac1 block"]
  ELSE IF ~HasBlock(data, Block2Prefix) THEN [data |-> NilBuf, err |-> "missing pac2 block"]
  ELSE IF ~HasBlock(data, Block3Prefix) THEN [data |-> NilBuf, err |-> "missing pac3 block"]
  ELSE [data |-> data, err |-> NoErr]

\* a reorder that does not verify that all three blocks are present
ReorderBlocks_NoPresenceCheck(data) ==
  IF Len(data) # PacketSize THEN [data |-> NilBuf, err |-> "invalid data size"]
  ELSE [data |-> data, err |-> NoErr]

\* a reorder that rewrites the three tags in place and moves no block
ReorderBlocks_TagsOnly(data) ==
  IF Len(data) # PacketSize THEN [data |-> NilBuf, err |-> "invalid data size"]
  ELSE IF ~HasBlock(data, Block1Prefix) THEN [data |-> NilBuf, err |-> "missing pac1 block"]
  ELSE IF ~HasBlock(data, Block2Prefix) THEN [data |-> NilBuf, err |-> "missing pac2 block"]
  ELSE IF ~HasBlock(data, Block3Prefix) THEN [data |-> NilBuf, err |-> "missing pac3 block"]
  ELSE [data |-> [j \in 1..Len(data) |->
                    IF (j - 1) % BlockSize = 3 THEN 49 + ((j - 1) \div BlockSize)
                    ELSE data[j]],
        err |-> NoErr]

ReorderBlocks(data) ==
  IF Len(data) # PacketSize THEN [data |-> NilBuf, err |-> "invalid data size"]
  ELSE IF ~HasBlock(data, Block1Prefix) THEN [data |-> NilBuf, err |-> "missing pac1 block"]
  ELSE IF ~HasBlock(data, Block2Prefix) THEN [data |-> NilBuf, err |-> "missing pac2 block"]
  ELSE IF ~HasBlock(data, Block3Prefix) THEN [data |-> NilBuf, err |-> "missing pac3 block"]
  ELSE IF /\ blockPositions(data, Block1Prefix) = 0
          /\ blockPositions(data, Block2Prefix) = 1
          /\ blockPositions(data, Block3Prefix) = 2
       THEN [data |-> data, err |-> NoErr]
  ELSE [data |-> blocks(data, Block1Prefix) \o blocks(data, Block2Prefix)
                   \o blocks(data, Block3Prefix),
        err |-> NoErr]

\* a decryption that hands the plaintext on in the order it was received
DecryptPacket_NoReorder(encrypted) ==
  IF Len(encrypted) # PacketSize THEN [data |-> NilBuf, err |-> "invalid packet size"]
  ELSE [data |-> EcbDecrypt(encrypted, 0), err |-> NoErr]

DecryptPacket(encrypted) ==
  IF Len(encrypted) # PacketSize THEN [data |-> NilBuf, err |-> "invalid packet size"]
  ELSE LET reordered == ReorderBlocks(EcbDecrypt(encrypted, 0))
       IN IF reordered.err # NoErr
          THEN [data |-> NilBuf, err |-> "failed to reorder blocks: " \o reordered.err]
          ELSE reordered

\* float64(raw) * 10^exp, kept as the exact decimal; a temperature is kept
\* as magnitude and sign, negated exactly when neg
Scaled(raw, exp) == [raw |-> raw, exp |-> exp]

\* pac1 fields with the offsets of voltage and current exchanged
Pac1Fields_SwappedOffsets(pac1) ==
  [Product      |-> TrimRightNul(Slice(pac1, 4, 8)),
   Version      |-> TrimRightNul(Slice(pac1, 8, 12)),
   SerialNumber |-> Uint32LE(pac1, 12),
   NumRuns      |-> Uint32LE(pac1, 44),
   Voltage      |-> Scaled(Uint32LE(pac1, 52), -4),
   Current      |-> Scaled(Uint32LE(pac1, 48), -5),
   Power        |-> Scaled(Uint32LE(pac1, 56), -4)]

\* the pac1 fields, as assigned to the Reading under construction
Pac1Fields(pac1) ==
  [Product      |-> TrimRightNul(Slice(pac1, 4, 8)),
   Version      |-> TrimRightNul(Slice(pac1, 8, 12)),
   SerialNumber |-> Uint32LE(pac1, 12),
   NumRuns      |-> Uint32LE(pac1, 44),
   Voltage      |-> Scaled(Uint32LE(pac1, 48), -4),
   Current      |-> Scaled(Uint32LE(pac1, 52), -5),
   Power        |-> Scaled(Uint32LE(pac1, 56), -4)]

\* pac2 fields that negate the temperature only when the sign flag is 1
Pac2Fields_SignIsOne(pac2) ==
  [Resistance      |-> Scaled(Uint32LE(pac2, 4), -2),
   Group0MAh       |-> Uint32LE(pac2, 8),
   Group0MWh       |-> Uint32LE(pac2, 12),
   Group1MAh       |-> Uint32LE(pac2, 16),
   Group1MWh       |-> Uint32LE(pac2, 20),
   TemperatureSign |-> Uint32LE(pac2, 24),
   Temperature     |-> [neg |-> Uint32LE(pac2, 24) = U32(0, 1),
                        mag |-> Uint32LE(pac2, 28)],
   DPlusVoltage    |-> Scaled(Uint32LE(pac2, 32), -2),
   DMinusVoltage   |-> Scaled(Uint32LE(pac2, 36), -2)]

\* the pac2 fields
Pac2Fields(pac2) ==
  [Resistance      |-> Scaled(Uint32LE(pac2, 4), -2),
   Group0MAh       |-> Uint32LE(pac2, 8),
   Group0MWh       |-> Uint32LE(pac2, 12),
   Group1MAh       |-> Uint32LE(pac2, 16),
   Group1MWh       |-> Uint32LE(pac2, 20),
   TemperatureSign |-> Uint32LE(pac2, 24),
   Temperature     |-> [neg |-> Uint32LE(pac2, 24) # U32(0, 0),
                        mag |-> Uint32LE(pac2, 28)],
   DPlusVoltage    |-> Scaled(Uint32LE(pac2, 32), -2),
   DMinusVoltage   |-> Scaled(Uint32LE(pac2, 36), -2)]

\* the zero value of the pac2 fields in &Reading{}
Pac2Zero ==
  [Resistance      |-> Scaled(U32(0, 0), -2),
   Group0MAh       |-> U32(0, 0),
   Group0MWh       |-> U32(0, 0),
   Group1MAh       |-> U32(0, 0),
   Group1MWh       |-> U32(0, 0),
   TemperatureSign |-> U32(0, 0),
   Temperature     |-> [neg |-> FALSE, mag |-> U32(0, 0)],
   DPlusVoltage    |-> Scaled(U32(0, 0), -2),
   DMinusVoltage   |-> Scaled(U32(0, 0), -2)]

\* record union of the two field groups
MkReading(f1, f2) ==
  [k \in (DOMAIN f1) \cup (DOMAIN f2) |-> IF k \in DOMAIN f1 THEN f1[k] ELSE f2[k]]

\* a checksum test that reads the checksum field as the four bytes 60..63
BlockChecksumOK_FourBytes(blk) ==
  /\ VerifyChecksum(Slice(blk, 0, 60), Uint16LE(blk, 60))
  /\ Slice(blk, 62, 64) = <<0, 0>>

\* the block's checksum test: LE16 at 60..61 against the CRC of bytes 0..59
BlockChecksumOK(blk) == VerifyChecksum(Slice(blk, 0, 60), Uint16LE(blk, 60))

\* a parser that hands back the Reading under construction when a checksum
\* fails, instead of nil
ParseReading_Partial(data) ==
  IF Len(data) # PacketSize THEN [reading |-> NilReading, err |-> "invalid data size"]
  ELSE
    LET pac1 == Slice(data, 0, 64)
        pac2 == Slice(data, 64, 128)
        pac3 == Slice(data, 128, 192)
    IN IF PrefixOf(pac1) # Block1Prefix
       THEN [reading |-> NilReading, err |-> "invalid pac1 prefix"]
       ELSE IF ~BlockChecksumOK(pac1)
       THEN [reading |-> MkReading(Pac1Fields(pac1), Pac2Zero),
             err |-> "pac1 checksum verification failed"]
       ELSE IF PrefixOf(pac2) # Block2Prefix
       THEN [reading |-> NilReading, err |-> "invalid pac2 prefix"]
       ELSE IF ~BlockChecksumOK(pac2)
       THEN [reading |-> MkReading(Pac1Fields(pac1), Pac2Fields(pac2)),
             err |-> "pac2 checksum verification failed"]
       ELSE IF PrefixOf(pac3) # Block3Prefix
       THEN [reading |-> NilReading, err |-> "invalid pac3 prefix"]
       ELSE IF ~BlockChecksumOK(pac3)
       THEN [reading |-> MkReading(Pac1Fields(pac1), Pac2Fields(pac2)),
             err |-> "pac3 checksum verification failed"]
       ELSE [reading |-> MkReading(Pac1Fields(pac1), Pac2Fields(pac2)), err |-> NoErr]

\* a parser that skips the checksum of the (undecoded) trailer block
ParseReading_NoPac3Checksum(data) ==
  IF Len(data) # PacketSize THEN [reading |-> NilReading, err |-> "invalid data size"]
  ELSE
    LET pac1 == Slice(data, 0, 64)
        pac2 == Slice(data, 64, 128)
        pac3 == Slice(data, 128, 192)
    IN IF PrefixOf(pac1) # Block1Prefix
       THEN [reading |-> NilReading, err |-> "invalid pac1 prefix"]
       ELSE IF ~BlockChecksumOK(pac1)
       THEN [reading |-> NilReading, err |-> "pac1 checksum verification failed"]
       ELSE IF PrefixOf(pac2) # Block2Prefix
       THEN [reading |-> NilReading, err |-> "invalid pac2 prefix"]
       ELSE IF ~BlockChecksumOK(pac2)
       THEN [reading |-> NilReading, err |-> "pac2 checksum verification failed"]
       ELSE IF PrefixOf(pac3) # Block3Prefix
       THEN [reading |-> NilReading, err |-> "invalid pac3 prefix"]
       ELSE [reading |-> MkReading(Pac1Fields(pac1), Pac2Fields(pac2)), err |-> NoErr]

ParseReading(data) ==
  IF Len(data) # PacketSize THEN [reading |-> NilReading, err |-> "invalid data size"]
  ELSE
    LET pac1 == Slice(data, 0, 64)
        pac2 == Slice(data, 64, 128)
        pac3 == Slice(data, 128, 192)
    IN IF PrefixOf(pac1) # Block1Prefix
       THEN [reading |-> NilReading, err |-> "invalid pac1 prefix"]
       ELSE IF ~BlockChecksumOK(pac1)
       THEN [reading |-> NilReading, err |-> "pac1 checksum verification failed"]
       ELSE IF PrefixOf(pac2) # Block2Prefix
       THEN [reading |-> NilReading, err |-> "invalid pac2 prefix"]
       ELSE IF ~BlockChecksumOK(pac2)
       THEN [reading |-> NilReading, err |-> "pac2 checksum verification failed"]
       ELSE IF PrefixOf(pac3) # Block3Prefix
       THEN [reading |-> NilReading, err |-> "invalid pac3 prefix"]
       ELSE IF ~BlockChecksumOK(pac3)
       THEN [reading |-> NilReading, err |-> "pac3 checksum verification failed"]
       ELSE [reading |-> MkReading(Pac1Fields(pac1), Pac2Fields(pac2)), err |-> NoErr]

\* GetReading after the 192-byte response is in: decrypt, then parse
DecodeResponse(encrypted) ==
  LET decrypted == DecryptPacket(encrypted)
  IN IF decrypted.err # NoErr
     THEN [reading |-> NilReading, err |-> "failed to decrypt packet: " \o decrypted.err]
     ELSE LET parsed == ParseReading(decrypted.data)
          IN IF parsed.err # NoErr
             THEN [reading |-> NilReading, err |-> "failed to parse reading: " \o parsed.err]
             ELSE parsed

\* ------------------------------------------------------------------------
\* Codec inputs: well-formed packets in any physical block order
\* ------------------------------------------------------------------------
LE32(n) == <<n.lo % 256, n.lo \div 256, n.hi % 256, n.hi \div 256>>
LE16(n) == <<n % 256, (n \div 256) % 256>>

Zeros(n) == [j \in 1..n |-> 0]

\* a 60-byte body completed with its checksum field and the two reserved bytes
Seal(body) == body \o LE16(CalculateCRC16Modbus(body)) \o <<0, 0>>

\* block layouts as ParseReading reads them
MkPac1(f) ==
  Seal(Block1Prefix \o f.product \o f.version \o LE32(f.serial) \o Zeros(28)
       \o LE32(f.runs) \o LE32(f.voltage) \o LE32(f.current) \o LE32(f.power))

MkPac2(f) ==
  Seal(Block2Prefix \o LE32(f.resistance) \o LE32(f.g0mah) \o LE32(f.g0mwh)
       \o LE32(f.g1mah) \o LE32(f.g1mwh) \o LE32(f.tsign) \o LE32(f.temp)
       \o LE32(f.dplus) \o LE32(f.dminus) \o Zeros(20))

MkPac3(f) == Seal(Block3Prefix \o [j \in 1..56 |-> (f.fill * j) % 256])

\* raw field values of the sample packets
Samples ==
  { [product |-> <<84, 67, 54, 54>>, version |-> <<49, 46, 49, 52>>,
     serial |-> U32(4660, 22136), runs |-> U32(0, 17), voltage |-> U32(0, 51234),
     current |-> U32(2, 18928), power |-> U32(1, 11315),
     resistance |-> U32(0, 3415), g0mah |-> U32(0, 1200), g0mwh |-> U32(0, 6100),
     g1mah |-> U32(0, 0), g1mwh |-> U32(0, 0), tsign |-> U32(0, 0),
     temp |-> U32(0, 27), dplus |-> U32(0, 60), dminus |-> U32(0, 59), fill |-> 0],
    [product |-> <<84, 67, 0, 0>>, version |-> <<49, 0, 0, 0>>,
     serial |-> U32(65535, 65535), runs |-> U32(0, 0), voltage |-> U32(0, 0),
     current |-> U32(0, 1), power |-> U32(256, 0),
     resistance |-> U32(1, 0), g0mah |-> U32(0, 255), g0mwh |-> U32(0, 256),
     g1mah |-> U32(65535, 65535), g1mwh |-> U32(0, 1), tsign |-> U32(0, 2),
     temp |-> U32(0, 5), dplus |-> U32(0, 0), dminus |-> U32(0, 330), fill |-> 3] }

BlocksOf(f) == <<MkPac1(f), MkPac2(f), MkPac3(f)>>

\* the six physical orders of the three blocks
Orders ==
  { <<1, 2, 3>>, <<1, 3, 2>>, <<2, 1, 3>>, <<2, 3, 1>>, <<3, 1, 2>>, <<3, 2, 1>> }

Arrange(bl, o) == bl[o[1]] \o bl[o[2]] \o bl[o[3]]

\* buf with the byte at 0-based offset off replaced by b
SetByte(buf, off, b) == [buf EXCEPT ![off + 1] = b]

\* buf with the four tag bytes of slot i replaced
SetTag(buf, i, tag) ==
  [j \in 1..Len(buf) |->
     IF j > i * BlockSize /\ j <= i * BlockSize + 4 THEN tag[j - i * BlockSize]
     ELSE buf[j]]

\* buf with slot i replaced by the block blk
PutBlock(buf, i, blk) ==
  [j \in 1..Len(buf) |->
     IF j > i * BlockSize /\ j <= (i + 1) * BlockSize THEN blk[j - i * BlockSize]
     ELSE buf[j]]

\* a pac2 block with another sign flag and magnitude, checksum recomputed
WithTemperature(pac2, sign, mag) ==
  Seal(Slice(pac2, 0, 24) \o LE32(sign) \o LE32(mag) \o Slice(pac2, 32, 60))

\* sign flags: zero, one, and values with one nonzero byte at each position
TempSigns ==
  { U32(0, 0), U32(0, 1), U32(0, 2), U32(0, 256), U32(1, 0), U32(256, 0), U32(65535, 65535) }
TempMags == { U32(0, 0), U32(0, 27), U32(65535, 65535) }

\* tags that are none of pac1, pac2, pac3
UnknownTags == { <<112, 97, 99, 52>>, <<0, 0, 0, 0>>, <<80, 65, 67, 49>> }

Prefixes == <<Block1Prefix, Block2Prefix, Block3Prefix>>

NoOut == [fn |-> "none"]
NoEdit == [kind |-> "none", slot |-> 0, pos |-> 0]

\* CRC inputs start from the empty string or from the ASCII digits 1..9
CrcSeeds == { <<>>, <<49, 50, 51, 52, 53, 54, 55, 56, 57>> }
CrcBytes == { 0, 1, 49, 128, 255 }

\* ------------------------------------------------------------------------
\* Device session (the TC66C type)
\* ------------------------------------------------------------------------
FirmwareChunkSize == 64
ReadTimeoutMs == 2000
FlushTimeoutMs == 10
SettleMs == 50
FlushBufSize == 1024
RecordSize == 8

ModeFirmware == "firmware"
ModeBootloader == "bootloader"
ModeUnknown == "unknown"

CRLF == <<13, 10>>
CmdQuery == <<113, 117, 101, 114, 121>>
CmdGetVA == <<103, 101, 116, 118, 97>>
CmdGetRec == <<103, 116, 114, 101, 99>>
CmdLastP == <<108, 97, 115, 116, 112>>
CmdNextP == <<110, 101, 120, 116, 112>>
CmdRotat == <<114, 111, 116, 97, 116>>
CmdUpdate == <<117, 112, 100, 97, 116, 101>>
UpdateModeResponse == <<117, 112, 114, 100, 121>>
ChunkOKResponse == <<79, 75>>
RespFirm == <<102, 105, 114, 109>>
RespBoot == <<98, 111, 111, 116>>

Nil == [nil |-> TRUE]
NoRet == [op |-> "none", arg |-> <<>>, val |-> Nil, err |-> NoErr]
PortClosed == [open |-> FALSE, timeout |-> 0, lost |-> FALSE]

\* ------------------------------------------------------------------------
\* Web client state (cmd_update.go: Client, handleWebSocket)
\* ------------------------------------------------------------------------
\* owners of c.mu: nobody, the message handler, or the poller p >= 1
Free == -1
HandlerG == 0
Pollers == 1..MaxPolls

\* a nil *time.Ticker; a ticker is [owner, on]
NoTicker == [owner |-> 0, on |-> FALSE]
NoResp == [Command |-> "none", Success |-> FALSE]

\* client := &Client{conn: conn, pollStop: make(chan bool)}, and the message
\* loop waiting in conn.ReadJSON
WebIdle ==
  /\ client = [device |-> 0, pollTicker |-> NoTicker, isPolling |-> FALSE, mu |-> Free,
               conn |-> "open"]
  /\ handler = [pc |-> "read", cmd |-> "none", resp |-> NoResp, dev |-> 0]
  /\ pollers = [p \in Pollers |-> [pc |-> "none", ok |-> FALSE]]
  /\ devices = [d \in Pollers |-> "none"]
  /\ lastResp = NoResp

\* the session before NewTC66C is called
SessionIdle ==
  /\ sess = "none"
  /\ Mode = ModeUnknown
  /\ port = PortClosed
  /\ rx = <<>>
  /\ pending = <<>>
  /\ op = "none"
  /\ pc = "idle"
  /\ trace = <<>>
  /\ response = <<>>
  /\ size = 0
  /\ firmwareData = <<>>
  /\ bytesSent = 0
  /\ chunksSent = 0
  /\ progress = <<>>
  /\ buffer = <<>>
  /\ results = <<>>
  /\ ret = NoRet

\* the codec harness at rest
CodecIdle ==
  /\ fixture = "none"
  /\ inbuf = <<>>
  /\ canon = <<>>
  /\ order = <<>>
  /\ edit = NoEdit
  /\ step = "input"
  /\ out = NoOut

InitPacket ==
  /\ fixture = "packet"
  /\ \E f \in Samples, o \in Orders :
       /\ inbuf = Arrange(BlocksOf(f), o)
       /\ canon = Arrange(BlocksOf(f), <<1, 2, 3>>)
       /\ order = o
  /\ edit = NoEdit
  /\ step = "input"
  /\ out = NoOut
  /\ SessionIdle
  /\ WebIdle

InitCrc ==
  /\ fixture = "crc"
  /\ inbuf \in CrcSeeds
  /\ canon = <<>>
  /\ order = <<>>
  /\ edit = NoEdit
  /\ step = "input"
  /\ out = NoOut
  /\ SessionIdle
  /\ WebIdle

\* one byte of one block changes, its checksum field is left as it was
TamperByte(slot, pos, d) ==
  /\ fixture = "packet" /\ step = "input"
  /\ LET off == slot * BlockSize + pos
         coff == (order[slot + 1] - 1) * BlockSize + pos
     IN /\ inbuf' = SetByte(inbuf, off, (inbuf[off + 1] + d) % 256)
        /\ canon' = SetByte(canon, coff, (canon[coff + 1] + d) % 256)
  /\ edit' = [kind |-> "byte", slot |-> slot, pos |-> pos]
  /\ step' = "edited"
  /\ UNCHANGED sessVars
  /\ UNCHANGED webVars
  /\ UNCHANGED <<fixture, order, out>>

\* the tag of one slot is replaced by an unknown tag or by another slot's tag
ReplaceTag(slot, tag) ==
  /\ fixture = "packet" /\ step = "input"
  /\ tag # PrefixOf(BlockAt(inbuf, slot))
  /\ inbuf' = SetTag(inbuf, slot, tag)
  /\ canon' = SetTag(canon, order[slot + 1] - 1, tag)
  /\ edit' = [kind |-> "tag", slot |-> slot, pos |-> 0]
  /\ step' = "edited"
  /\ UNCHANGED sessVars
  /\ UNCHANGED webVars
  /\ UNCHANGED <<fixture, order, out>>

\* the meter reports another temperature: sign flag and magnitude of the pac2
\* block change and the block is sealed again
SetTemperature(sign, mag) ==
  /\ fixture = "packet" /\ step = "input"
  /\ LET slot == CHOOSE i \in 0..(NumBlocks - 1) : order[i + 1] = 2
         pac2 == WithTemperature(BlockAt(canon, 1), sign, mag)
     IN /\ pac2 # BlockAt(canon, 1)
        /\ inbuf' = PutBlock(inbuf, slot, pac2)
        /\ canon' = PutBlock(canon, 1, pac2)
        /\ edit' = [kind |-> "temp", slot |-> slot, pos |-> 24]
  /\ step' = "edited"
  /\ UNCHANGED sessVars
  /\ UNCHANGED webVars
  /\ UNCHANGED <<fixture, order, out>>

ApplyReorderBlocks ==
  /\ fixture = "packet" /\ step \in {"input", "edited"}
  /\ out' = [fn |-> "ReorderBlocks", val |-> ReorderBlocks(inbuf)]
  /\ step' = "done"
  /\ UNCHANGED sessVars
  /\ UNCHANGED webVars
  /\ UNCHANGED <<fixture, inbuf, canon, order, edit>>

ApplyParseReading ==
  /\ fixture = "packet" /\ step \in {"input", "edited"}
  /\ out' = [fn |-> "ParseReading", val |-> ParseReading(inbuf)]
  /\ step' = "done"
  /\ UNCHANGED sessVars
  /\ UNCHANGED webVars
  /\ UNCHANGED <<fixture, inbuf, canon, order, edit>>

\* the device sends the buffer encrypted; the host decrypts, reorders, parses
ApplyDecode ==
  /\ fixture = "packet" /\ step \in {"input", "edited"}
  /\ out' = [fn |-> "Decode", val |-> DecodeResponse(EcbEncrypt(inbuf, 0))]
  /\ step' = "done"
  /\ UNCHANGED sessVars
  /\ UNCHANGED webVars
  /\ UNCHANGED <<fixture, inbuf, canon, order, edit>>

CrcAppend(b) ==
  /\ fixture = "crc" /\ step = "input"
  /\ edit.pos < MaxCrcLen
  /\ inbuf' = Append(inbuf, b)
  /\ edit' = [kind |-> "append", slot |-> 0, pos |-> edit.pos + 1]
  /\ UNCHANGED sessVars
  /\ UNCHANGED webVars
  /\ UNCHANGED <<fixture, canon, order, step, out>>

ApplyCRC ==
  /\ fixture = "crc" /\ step = "input"
  /\ out' = [fn |-> "CalculateCRC16Modbus", val |-> CalculateCRC16Modbus(inbuf)]
  /\ step' = "done"
  /\ UNCHANGED sessVars
  /\ UNCHANGED webVars
  /\ UNCHANGED <<fixture, inbuf, canon, order, edit>>

vars == <<codecVars, sessVars, webVars>>

InitCodec == InitPacket \/ InitCrc

NextCodec ==
  \/ \E slot \in 0..(NumBlocks - 1), pos \in 0..(BlockSize - 1), d \in 1..MaxDelta :
       TamperByte(slot, pos, d)
  \/ \E slot \in 0..(NumBlocks - 1), tag \in UnknownTags \cup {Block1Prefix, Block2Prefix, Block3Prefix} :
       ReplaceTag(slot, tag)
  \/ \E sign \in TempSigns, mag \in TempMags : SetTemperature(sign, mag)
  \/ ApplyReorderBlocks
  \/ ApplyParseReading
  \/ ApplyDecode
  \/ \E b \in CrcBytes : CrcAppend(b)
  \/ ApplyCRC

SpecCodec == InitCodec /\ [][NextCodec]_vars


\* ------------------------------------------------------------------------
\* The serial channel and the device behind it
\* ------------------------------------------------------------------------
EvOpen == [k |-> "open"]
EvClose == [k |-> "close"]
EvTimeout(ms) == [k |-> "timeout", ms |-> ms]
EvRead(site, bytes, failed) ==
  [k |-> "read", site |-> site, n |-> Len(bytes), failed |-> failed,
   kept |-> IF site = "flush" THEN <<>> ELSE bytes]
EvWrite(bytes, failed) == [k |-> "write", bytes |-> bytes, failed |-> failed]
EvSleep == [k |-> "sleep", ms |-> SettleMs]

Min(a, b) == IF a < b THEN a ELSE b

\* port.Read(buf) with len(buf) = cap on an open, working port: what is
\* buffered, up to cap bytes; nothing when the timeout passes with no data
ReadBytes(cap) == SubSeq(rx, 1, Min(cap, Len(rx)))

\* port operations fail on a closed port and on one whose device is gone
PortFails == ~port.open \/ port.lost

\* port.SetReadTimeout(ms): takes effect on a working port; on a failed port
\* the call may fail, and flushBuffer does not look at its result
WithTimeout(ms) ==
  IF PortFails THEN {port, [port EXCEPT !.timeout = ms]} ELSE {[port EXCEPT !.timeout = ms]}

\* firmware images and recording streams offered to the session
FwImage(n) == [j \in 1..n |-> (7 * j) % 256]
FwLens == {0, 1, FirmwareChunkSize, FirmwareChunkSize + 1, MaxFwLen}
RecStream(n) == [j \in 1..n |-> (37 * j) % 256]
RecLens == {0, 3, RecordSize, MaxRecLen}

SessionSample == CHOOSE f \in Samples : f.fill = 0

\* plaintexts the device answers getva with: valid in canonical order, valid
\* in another order, one payload byte off, one tag unknown
SessionPackets ==
  LET good == Arrange(BlocksOf(SessionSample), <<1, 2, 3>>)
  IN { good,
       Arrange(BlocksOf(SessionSample), <<3, 1, 2>>),
       SetByte(good, 70, (good[71] + 1) % 256),
       SetTag(good, 2, <<112, 97, 99, 52>>) }

\* what the device may answer to a command
Replies(cmd) ==
  IF cmd = CmdQuery THEN {RespFirm, RespBoot, <<102, 105, 114, 120>>, <<102, 105>>, <<>>}
  ELSE IF cmd = CmdGetVA THEN {EcbEncrypt(pt, 0) : pt \in SessionPackets} \cup {<<>>}
  ELSE IF cmd = CmdGetRec THEN {RecStream(n) : n \in RecLens}
  ELSE IF cmd = CmdUpdate THEN {UpdateModeResponse, <<117, 112, 114, 100, 120>>, <<>>}
  ELSE {<<>>, <<79, 75>>}

\* what the device may answer to a firmware chunk
ChunkReplies == {ChunkOKResponse, <<78, 71>>, <<79>>}

\* an answer goes out in one burst or in two
Bursts(reply) ==
  IF reply = <<>> THEN {<<>>}
  ELSE IF Len(reply) = 1 THEN {<<reply>>}
  ELSE {<<reply>>,
        <<SubSeq(reply, 1, Len(reply) \div 2),
          SubSeq(reply, Len(reply) \div 2 + 1, Len(reply))>>}

\* the device goes away (cable pulled): the port stays open and fails
Unplug ==
  /\ port.open /\ ~port.lost
  /\ port' = [port EXCEPT !.lost = TRUE]
  /\ UNCHANGED codecVars
  /\ UNCHANGED webVars
  /\ UNCHANGED <<sess, Mode, rx, pending, op, pc, trace, response, size, firmwareData,
                 bytesSent, chunksSent, progress, buffer, results, ret>>

\* the device puts its next burst on the wire
DeviceSend ==
  /\ ~PortFails
  /\ pending # <<>>
  /\ rx' = rx \o Head(pending)
  /\ pending' = Tail(pending)
  /\ UNCHANGED codecVars
  /\ UNCHANGED webVars
  /\ UNCHANGED <<sess, Mode, port, op, pc, trace, response, size, firmwareData,
                 bytesSent, chunksSent, progress, buffer, results, ret>>

\* ------------------------------------------------------------------------
\* Session methods, one action per step between two port operations
\* ------------------------------------------------------------------------
Idle == op = "none" /\ pc = "idle"

CmdOf(o) ==
  IF o \in {"NewTC66C", "Query"} THEN CmdQuery
  ELSE IF o = "GetReading" THEN CmdGetVA
  ELSE IF o = "GetRecordings" THEN CmdGetRec
  ELSE IF o = "PreviousPage" THEN CmdLastP
  ELSE IF o = "NextPage" THEN CmdNextP
  ELSE IF o = "RotateScreen" THEN CmdRotat
  ELSE CmdUpdate

\* the caller's wrapping of an error that comes up from sendCommand,
\* readResponse or a chunk write
Wrap(e) ==
  IF op = "NewTC66C" THEN "failed to query device mode: " \o e
  ELSE IF op = "UpdateFirmware" THEN
    IF pc = "write" THEN "failed to send update command: " \o e
    ELSE IF pc = "chunk_write"
      THEN "failed to write chunk " \o ToString(chunksSent + 1) \o ": " \o e
    ELSE IF size = 2
      THEN "failed to read response for chunk " \o ToString(chunksSent + 1) \o ": " \o e
    ELSE "failed to read update mode response: " \o e
  ELSE e

ModeErr(m) == "device must be in firmware mode (current mode: " \o m \o ")"
UpdateModeErr(m) ==
  "device must be in bootloader mode to update firmware (current mode: " \o m \o ")"

\* the locals of a call are gone when it returns
ClearLocals ==
  /\ response' = <<>>
  /\ size' = 0
  /\ firmwareData' = <<>>
  /\ bytesSent' = 0
  /\ chunksSent' = 0
  /\ buffer' = <<>>
  /\ results' = <<>>

locals == <<response, size, firmwareData, bytesSent, chunksSent, buffer, results>>

\* the call o(a) returns (v, e) without a port operation
ReturnNow(o, a, v, e) ==
  /\ ret' = [op |-> o, arg |-> a, val |-> v, err |-> e]
  /\ trace' = <<>>
  /\ progress' = <<>>
  /\ UNCHANGED <<op, pc>>
  /\ UNCHANGED locals

\* the call in progress returns (v, e); tr is its trace
Return(v, e, tr) ==
  /\ ret' = [op |-> op, arg |-> firmwareData, val |-> v, err |-> e]
  /\ op' = "none"
  /\ pc' = "idle"
  /\ trace' = tr
  /\ ClearLocals

\* the call in progress returns the error e; NewTC66C closes the port first
Abort(e, tr) ==
  /\ ret' = [op |-> op, arg |-> firmwareData, val |-> Nil, err |-> Wrap(e)]
  /\ op' = "none"
  /\ pc' = "idle"
  /\ ClearLocals
  /\ IF op = "NewTC66C"
     THEN /\ sess' = "failed"
          /\ port' = PortClosed
          /\ rx' = <<>>
          /\ trace' = Append(tr, EvClose)
     ELSE /\ UNCHANGED <<sess, port, rx>>
          /\ trace' = tr

\* the call o enters sendCommand
Enter(o) ==
  /\ op' = o
  /\ pc' = "flush_set"
  /\ trace' = <<>>
  /\ progress' = <<>>
  /\ ret' = NoRet

\* NewTC66C up to the construction of tc: serial.Open, SetReadTimeout(2s)
NewTC66C_Open(opened, configured) ==
  /\ Idle /\ sess \in {"none", "failed"}
  /\ IF ~opened
     THEN /\ ret' = [op |-> "NewTC66C", arg |-> <<>>, val |-> Nil, err |-> "failed to open serial port"]
          /\ sess' = "failed"
          /\ trace' = <<>>
          /\ UNCHANGED <<port, Mode, op, pc>>
     ELSE IF ~configured
     THEN /\ ret' = [op |-> "NewTC66C", arg |-> <<>>, val |-> Nil, err |-> "failed to set read timeout"]
          /\ sess' = "failed"
          /\ trace' = <<EvOpen, EvClose>>
          /\ UNCHANGED <<port, Mode, op, pc>>
     ELSE /\ port' = [open |-> TRUE, timeout |-> ReadTimeoutMs, lost |-> FALSE]
          /\ Mode' = ModeUnknown
          /\ op' = "NewTC66C"
          /\ pc' = "flush_set"
          /\ trace' = <<EvOpen, EvTimeout(ReadTimeoutMs)>>
          /\ ret' = NoRet
          /\ UNCHANGED sess
  /\ UNCHANGED codecVars
  /\ UNCHANGED webVars
  /\ UNCHANGED <<rx, pending, progress>>
  /\ UNCHANGED locals

Query_Call ==
  /\ Idle /\ sess = "open"
  /\ Enter("Query")
  /\ UNCHANGED codecVars
  /\ UNCHANGED webVars
  /\ UNCHANGED <<sess, Mode, port, rx, pending>>
  /\ UNCHANGED locals

\* a firmware-mode method called without its mode guard
FirmwareOnly_Call_NoGuard(o) ==
  /\ Idle /\ sess = "open"
  /\ Enter(o)
  /\ UNCHANGED codecVars
  /\ UNCHANGED webVars
  /\ UNCHANGED <<sess, Mode, port, rx, pending>>
  /\ UNCHANGED locals

\* GetReading, GetRecordings, PreviousPage, NextPage, RotateScreen: the mode
\* guard, then sendCommand
FirmwareOnly_Call(o) ==
  /\ Idle /\ sess = "open"
  /\ IF Mode # ModeFirmware
     THEN ReturnNow(o, <<>>, Nil, ModeErr(Mode))
     ELSE Enter(o) /\ UNCHANGED locals
  /\ UNCHANGED codecVars
  /\ UNCHANGED webVars
  /\ UNCHANGED <<sess, Mode, port, rx, pending>>

GetReading_Call == FirmwareOnly_Call("GetReading")
GetRecordings_Call == FirmwareOnly_Call("GetRecordings")
PreviousPage_Call == FirmwareOnly_Call("PreviousPage")
NextPage_Call == FirmwareOnly_Call("NextPage")
RotateScreen_Call == FirmwareOnly_Call("RotateScreen")

\* UpdateFirmware without its own mode check, as if only the caller checked
UpdateFirmware_Call_NoModeCheck(fw) ==
  /\ Idle /\ sess = "open"
  /\ IF Len(fw) = 0
     THEN ReturnNow("UpdateFirmware", fw, Nil, "firmware data is empty")
     ELSE /\ Enter("UpdateFirmware")
          /\ firmwareData' = fw
          /\ UNCHANGED <<response, size, bytesSent, chunksSent, buffer, results>>
  /\ UNCHANGED codecVars
  /\ UNCHANGED webVars
  /\ UNCHANGED <<sess, Mode, port, rx, pending>>

\* UpdateFirmware without the check for an empty image
UpdateFirmware_Call_NoEmptyCheck(fw) ==
  /\ Idle /\ sess = "open"
  /\ IF Mode # ModeBootloader
     THEN ReturnNow("UpdateFirmware", fw, Nil, UpdateModeErr(Mode))
     ELSE /\ Enter("UpdateFirmware")
          /\ firmwareData' = fw
          /\ UNCHANGED <<response, size, bytesSent, chunksSent, buffer, results>>
  /\ UNCHANGED codecVars
  /\ UNCHANGED webVars
  /\ UNCHANGED <<sess, Mode, port, rx, pending>>

\* UpdateFirmware: the mode check, the empty check, then sendCommand
UpdateFirmware_Call(fw) ==
  /\ Idle /\ sess = "open"
  /\ IF Mode # ModeBootloader
     THEN ReturnNow("UpdateFirmware", fw, Nil, UpdateModeErr(Mode))
     ELSE IF Len(fw) = 0
     THEN ReturnNow("UpdateFirmware", fw, Nil, "firmware data is empty")
     ELSE /\ Enter("UpdateFirmware")
          /\ firmwareData' = fw
          /\ UNCHANGED <<response, size, bytesSent, chunksSent, buffer, results>>
  /\ UNCHANGED codecVars
  /\ UNCHANGED webVars
  /\ UNCHANGED <<sess, Mode, port, rx, pending>>

\* flushBuffer: SetReadTimeout(10ms)
FlushSetTimeout ==
  /\ pc = "flush_set"
  /\ port' \in WithTimeout(FlushTimeoutMs)
  /\ trace' = Append(trace, EvTimeout(FlushTimeoutMs))
  /\ pc' = "flush_read"
  /\ UNCHANGED codecVars
  /\ UNCHANGED webVars
  /\ UNCHANGED <<sess, Mode, rx, pending, op, progress, ret>>
  /\ UNCHANGED locals

\* a drain loop that stops after its first read, whatever it returned
FlushRead_Once ==
  /\ pc = "flush_read"
  /\ LET failed == PortFails
         got == IF failed THEN <<>> ELSE ReadBytes(FlushBufSize)
     IN /\ rx' = SubSeq(rx, Len(got) + 1, Len(rx))
        /\ trace' = Append(trace, EvRead("flush", got, failed))
        /\ pc' = "flush_restore"
  /\ UNCHANGED codecVars
  /\ UNCHANGED webVars
  /\ UNCHANGED <<sess, Mode, port, pending, op, progress, ret>>
  /\ UNCHANGED locals

\* a drain loop whose read error fails the command
FlushRead_ErrorAborts ==
  /\ pc = "flush_read"
  /\ LET failed == PortFails
         got == IF failed THEN <<>> ELSE ReadBytes(FlushBufSize)
         tr == Append(trace, EvRead("flush", got, failed))
     IN IF failed
        THEN Abort("failed to drain buffer", tr)
        ELSE /\ rx' = SubSeq(rx, Len(got) + 1, Len(rx))
             /\ trace' = tr
             /\ pc' = IF Len(got) = 0 THEN "flush_restore" ELSE "flush_read"
             /\ UNCHANGED <<sess, port, op, ret>>
             /\ UNCHANGED locals
  /\ UNCHANGED codecVars
  /\ UNCHANGED webVars
  /\ UNCHANGED <<Mode, pending, progress>>

\* flushBuffer: one iteration of the drain loop; the error is dropped, a
\* read of 0 bytes ends the loop
FlushRead ==
  /\ pc = "flush_read"
  /\ LET failed == PortFails
         got == IF failed THEN <<>> ELSE ReadBytes(FlushBufSize)
     IN /\ rx' = SubSeq(rx, Len(got) + 1, Len(rx))
        /\ trace' = Append(trace, EvRead("flush", got, failed))
        /\ pc' = IF Len(got) = 0 THEN "flush_restore" ELSE "flush_read"
  /\ UNCHANGED codecVars
  /\ UNCHANGED webVars
  /\ UNCHANGED <<sess, Mode, port, pending, op, progress, ret>>
  /\ UNCHANGED locals

\* a flush that leaves the short timeout in place
FlushRestore_KeepsShortTimeout ==
  /\ pc = "flush_restore"
  /\ trace' = Append(trace, EvTimeout(ReadTimeoutMs))
  /\ pc' = "write"
  /\ UNCHANGED codecVars
  /\ UNCHANGED webVars
  /\ UNCHANGED <<sess, Mode, port, rx, pending, op, progress, ret>>
  /\ UNCHANGED locals

\* flushBuffer: SetReadTimeout(2s)
FlushRestore ==
  /\ pc = "flush_restore"
  /\ port' \in WithTimeout(ReadTimeoutMs)
  /\ trace' = Append(trace, EvTimeout(ReadTimeoutMs))
  /\ pc' = "write"
  /\ UNCHANGED codecVars
  /\ UNCHANGED webVars
  /\ UNCHANGED <<sess, Mode, rx, pending, op, progress, ret>>
  /\ UNCHANGED locals

\* sendCommand: port.Write(cmd + "\r\n"); the device picks its answer
WriteCommand ==
  /\ pc = "write"
  /\ LET failed == PortFails
         tr == Append(trace, EvWrite(CmdOf(op) \o CRLF, failed))
     IN IF failed
        THEN /\ Abort("failed to write command", tr)
             /\ UNCHANGED pending
        ELSE /\ \E reply \in Replies(CmdOf(op)) : pending' \in Bursts(reply)
             /\ trace' = tr
             /\ pc' = "sleep"
             /\ UNCHANGED <<sess, port, rx, op, ret>>
             /\ UNCHANGED locals
  /\ UNCHANGED codecVars
  /\ UNCHANGED webVars
  /\ UNCHANGED <<Mode, progress>>

ResponseSize(o) ==
  IF o = "GetReading" THEN PacketSize
  ELSE IF o = "UpdateFirmware" THEN 5
  ELSE 4

\* page commands that wait for an answer after the settle delay
Settle_PageReadsReply ==
  /\ pc = "sleep"
  /\ LET tr == Append(trace, EvSleep)
     IN IF op = "GetRecordings"
        THEN /\ buffer' = <<>>
             /\ results' = <<>>
             /\ pc' = "rec_read"
             /\ trace' = tr
             /\ UNCHANGED <<op, ret, response, size, firmwareData, bytesSent, chunksSent>>
        ELSE /\ response' = <<>>
             /\ size' = ResponseSize(op)
             /\ pc' = "read"
             /\ trace' = tr
             /\ UNCHANGED <<op, ret, buffer, results, firmwareData, bytesSent, chunksSent>>
  /\ UNCHANGED codecVars
  /\ UNCHANGED webVars
  /\ UNCHANGED <<sess, Mode, port, rx, pending, progress>>

\* sendCommand: time.Sleep(50ms) and return nil; the caller goes on to its
\* read, or returns if it expects no response
Settle ==
  /\ pc = "sleep"
  /\ LET tr == Append(trace, EvSleep)
     IN IF op \in {"PreviousPage", "NextPage", "RotateScreen"}
        THEN Return(Nil, NoErr, tr)
        ELSE IF op = "GetRecordings"
        THEN /\ buffer' = <<>>
             /\ results' = <<>>
             /\ pc' = "rec_read"
             /\ trace' = tr
             /\ UNCHANGED <<op, ret, response, size, firmwareData, bytesSent, chunksSent>>
        ELSE /\ response' = <<>>
             /\ size' = ResponseSize(op)
             /\ pc' = "read"
             /\ trace' = tr
             /\ UNCHANGED <<op, ret, buffer, results, firmwareData, bytesSent, chunksSent>>
  /\ UNCHANGED codecVars
  /\ UNCHANGED webVars
  /\ UNCHANGED <<sess, Mode, port, rx, pending, progress>>

\* readResponse: the timeout error, with the bytes received and expected
TimeoutErr(n, sz) ==
  "timeout reading response (got " \o ToString(n) \o " of " \o ToString(sz) \o " bytes)"

\* a readResponse that makes one Read and returns the buffer, full or not
ReadResponse_SingleRead ==
  /\ pc = "read"
  /\ LET failed == PortFails
         got == IF failed THEN <<>> ELSE ReadBytes(size - Len(response))
         tr == Append(trace, EvRead("response", got, failed))
     IN IF failed
        THEN Abort("failed to read response", tr)
        ELSE IF Len(got) = 0
        THEN Abort(TimeoutErr(Len(response), size), tr)
        ELSE /\ response' = response \o got
             /\ rx' = SubSeq(rx, Len(got) + 1, Len(rx))
             /\ pc' = "resp"
             /\ trace' = tr
             /\ UNCHANGED <<sess, port, op, ret>>
             /\ UNCHANGED <<size, firmwareData, bytesSent, chunksSent, buffer, results>>
  /\ UNCHANGED codecVars
  /\ UNCHANGED webVars
  /\ UNCHANGED <<Mode, pending, progress>>

\* readResponse: one iteration of the read loop
ReadResponse ==
  /\ pc = "read"
  /\ LET failed == PortFails
         got == IF failed THEN <<>> ELSE ReadBytes(size - Len(response))
         tr == Append(trace, EvRead("response", got, failed))
     IN IF failed
        THEN Abort("failed to read response", tr)
        ELSE IF Len(got) = 0
        THEN Abort(TimeoutErr(Len(response), size), tr)
        ELSE /\ response' = response \o got
             /\ rx' = SubSeq(rx, Len(got) + 1, Len(rx))
             /\ pc' = IF Len(response) + Len(got) < size THEN "read" ELSE "resp"
             /\ trace' = tr
             /\ UNCHANGED <<sess, port, op, ret>>
             /\ UNCHANGED <<size, firmwareData, bytesSent, chunksSent, buffer, results>>
  /\ UNCHANGED codecVars
  /\ UNCHANGED webVars
  /\ UNCHANGED <<Mode, pending, progress>>

\* Query returns the four bytes
Query_Return ==
  /\ op = "Query" /\ pc = "resp"
  /\ Return(response, NoErr, trace)
  /\ UNCHANGED codecVars
  /\ UNCHANGED webVars
  /\ UNCHANGED <<sess, Mode, port, rx, pending, progress>>

\* a constructor that takes the default branch's mode without its error
NewTC66C_Return_AcceptAny ==
  /\ op = "NewTC66C" /\ pc = "resp"
  /\ Mode' = IF response = RespFirm THEN ModeFirmware
             ELSE IF response = RespBoot THEN ModeBootloader
             ELSE ModeUnknown
  /\ sess' = "open"
  /\ Return("tc", NoErr, trace)
  /\ UNCHANGED codecVars
  /\ UNCHANGED webVars
  /\ UNCHANGED <<port, rx, pending, progress>>

\* queryDeviceMode on the response, then NewTC66C sets tc.Mode and returns tc,
\* or closes the port and returns the error
NewTC66C_Return ==
  /\ op = "NewTC66C" /\ pc = "resp"
  /\ IF Len(response) # 4
     THEN /\ Abort("invalid query response length", trace)
          /\ UNCHANGED Mode
     ELSE IF response = RespFirm
     THEN /\ Mode' = ModeFirmware
          /\ sess' = "open"
          /\ Return("tc", NoErr, trace)
          /\ UNCHANGED <<port, rx>>
     ELSE IF response = RespBoot
     THEN /\ Mode' = ModeBootloader
          /\ sess' = "open"
          /\ Return("tc", NoErr, trace)
          /\ UNCHANGED <<port, rx>>
     ELSE /\ Abort("unknown device mode response", trace)
          /\ UNCHANGED Mode
  /\ UNCHANGED codecVars
  /\ UNCHANGED webVars
  /\ UNCHANGED <<pending, progress>>

\* GetReading: DecryptPacket, ParseReading
GetReading_Decode ==
  /\ op = "GetReading" /\ pc = "resp"
  /\ LET r == DecodeResponse(response)
     IN Return(r.reading, r.err, trace)
  /\ UNCHANGED codecVars
  /\ UNCHANGED webVars
  /\ UNCHANGED <<sess, Mode, port, rx, pending, progress>>

\* an update that starts the transfer on any five bytes
UpdateFirmware_Ready_AnyReply ==
  /\ op = "UpdateFirmware" /\ pc = "resp" /\ size = 5
  /\ IF response = <<>>
     THEN Return(Nil, "device replied with something else than 'uprdy'", trace)
     ELSE /\ bytesSent' = 0
          /\ chunksSent' = 0
          /\ pc' = "chunk_write"
          /\ UNCHANGED <<op, ret, trace, response, size, firmwareData, buffer, results>>
  /\ UNCHANGED codecVars
  /\ UNCHANGED webVars
  /\ UNCHANGED <<sess, Mode, port, rx, pending, progress>>

\* UpdateFirmware: the answer to the update command must be "uprdy"
UpdateFirmware_Ready ==
  /\ op = "UpdateFirmware" /\ pc = "resp" /\ size = 5
  /\ IF response # UpdateModeResponse
     THEN Return(Nil, "device replied with something else than 'uprdy'", trace)
     ELSE /\ bytesSent' = 0
          /\ chunksSent' = 0
          /\ pc' = "chunk_write"
          /\ UNCHANGED <<op, ret, trace, response, size, firmwareData, buffer, results>>
  /\ UNCHANGED codecVars
  /\ UNCHANGED webVars
  /\ UNCHANGED <<sess, Mode, port, rx, pending, progress>>

\* a chunk always cut from the start of the image
Chunk_FromStart(fw, sent) == Slice(fw, 0, Min(FirmwareChunkSize, Len(fw) - sent))

\* firmwareData[bytesSent:chunkEnd]
Chunk(fw, sent) == Slice(fw, sent, Min(sent + FirmwareChunkSize, Len(fw)))

\* UpdateFirmware: port.Write(chunk); the device picks its acknowledgement
UpdateFirmware_WriteChunk ==
  /\ op = "UpdateFirmware" /\ pc = "chunk_write"
  /\ LET failed == PortFails
         tr == Append(trace, EvWrite(Chunk(firmwareData, bytesSent), failed))
     IN IF failed
        THEN /\ Abort("write failed", tr)
             /\ UNCHANGED pending
        ELSE /\ \E reply \in ChunkReplies : pending' \in Bursts(reply)
             /\ response' = <<>>
             /\ size' = 2
             /\ pc' = "read"
             /\ trace' = tr
             /\ UNCHANGED <<sess, port, rx, op, ret>>
             /\ UNCHANGED <<firmwareData, bytesSent, chunksSent, buffer, results>>
  /\ UNCHANGED codecVars
  /\ UNCHANGED webVars
  /\ UNCHANGED <<Mode, progress>>

\* UpdateFirmware: the error for a chunk reply that is not "OK"
ChunkReplyErr(k) ==
  "device replied with something else than 'OK' for chunk " \o ToString(k)

\* a progress value whose chunk total is rounded down
Progress_FloorChunks(sent, chunks, fileSize) ==
  [BytesSent |-> sent, TotalBytes |-> fileSize, ChunksSent |-> chunks,
   TotalChunks |-> fileSize \div FirmwareChunkSize]

\* the progress value handed to the callback
Progress(sent, chunks, fileSize) ==
  [BytesSent |-> sent, TotalBytes |-> fileSize, ChunksSent |-> chunks,
   TotalChunks |-> (fileSize + FirmwareChunkSize - 1) \div FirmwareChunkSize]

\* an update that marks the session as back in firmware mode once the last
\* chunk is acknowledged
UpdateFirmware_Ack_ResetsMode ==
  /\ op = "UpdateFirmware" /\ pc = "resp" /\ size = 2
  /\ IF response # ChunkOKResponse
     THEN /\ Return(Nil, ChunkReplyErr(chunksSent + 1), trace)
          /\ UNCHANGED progress
     ELSE LET sent == bytesSent + Len(Chunk(firmwareData, bytesSent))
          IN /\ progress' = Append(progress, Progress(sent, chunksSent + 1, Len(firmwareData)))
             /\ IF sent < Len(firmwareData)
                THEN /\ bytesSent' = sent
                     /\ chunksSent' = chunksSent + 1
                     /\ pc' = "chunk_write"
                     /\ UNCHANGED <<op, ret, trace, response, size, firmwareData,
                                    buffer, results>>
                ELSE Return(Nil, NoErr, trace)
  /\ UNCHANGED codecVars
  /\ UNCHANGED webVars
  /\ Mode' = IF response = ChunkOKResponse
                  /\ bytesSent + Len(Chunk(firmwareData, bytesSent)) >= Len(firmwareData)
             THEN ModeFirmware ELSE Mode
  /\ UNCHANGED <<sess, port, rx, pending>>

\* an update that takes any two bytes for an acknowledgement
UpdateFirmware_Ack_AnyReply ==
  /\ op = "UpdateFirmware" /\ pc = "resp" /\ size = 2
  /\ IF response = <<>>
     THEN /\ Return(Nil, ChunkReplyErr(chunksSent + 1), trace)
          /\ UNCHANGED progress
     ELSE LET sent == bytesSent + Len(Chunk(firmwareData, bytesSent))
          IN /\ progress' = Append(progress, Progress(sent, chunksSent + 1, Len(firmwareData)))
             /\ IF sent < Len(firmwareData)
                THEN /\ bytesSent' = sent
                     /\ chunksSent' = chunksSent + 1
                     /\ pc' = "chunk_write"
                     /\ UNCHANGED <<op, ret, trace, response, size, firmwareData,
                                    buffer, results>>
                ELSE Return(Nil, NoErr, trace)
  /\ UNCHANGED codecVars
  /\ UNCHANGED webVars
  /\ UNCHANGED <<sess, Mode, port, rx, pending>>

\* an update that writes the chunk again when its reply is not "OK"
UpdateFirmware_Ack_Retry ==
  /\ op = "UpdateFirmware" /\ pc = "resp" /\ size = 2
  /\ IF response # ChunkOKResponse
     THEN /\ pc' = "chunk_write"
          /\ UNCHANGED <<op, ret, trace, response, size, firmwareData, bytesSent,
                         chunksSent, buffer, results, progress>>
     ELSE LET sent == bytesSent + Len(Chunk(firmwareData, bytesSent))
          IN /\ progress' = Append(progress, Progress(sent, chunksSent + 1, Len(firmwareData)))
             /\ IF sent < Len(firmwareData)
                THEN /\ bytesSent' = sent
                     /\ chunksSent' = chunksSent + 1
                     /\ pc' = "chunk_write"
                     /\ UNCHANGED <<op, ret, trace, response, size, firmwareData,
                                    buffer, results>>
                ELSE Return(Nil, NoErr, trace)
  /\ UNCHANGED codecVars
  /\ UNCHANGED webVars
  /\ UNCHANGED <<sess, Mode, port, rx, pending>>

\* UpdateFirmware: the acknowledgement must be "OK"; then the counters move,
\* the callback runs, and the loop goes on or the method returns nil
UpdateFirmware_Ack ==
  /\ op = "UpdateFirmware" /\ pc = "resp" /\ size = 2
  /\ IF response # ChunkOKResponse
     THEN /\ Return(Nil, ChunkReplyErr(chunksSent + 1), trace)
          /\ UNCHANGED progress
     ELSE LET sent == bytesSent + Len(Chunk(firmwareData, bytesSent))
          IN /\ progress' = Append(progress, Progress(sent, chunksSent + 1, Len(firmwareData)))
             /\ IF sent < Len(firmwareData)
                THEN /\ bytesSent' = sent
                     /\ chunksSent' = chunksSent + 1
                     /\ pc' = "chunk_write"
                     /\ UNCHANGED <<op, ret, trace, response, size, firmwareData,
                                    buffer, results>>
                ELSE Return(Nil, NoErr, trace)
  /\ UNCHANGED codecVars
  /\ UNCHANGED webVars
  /\ UNCHANGED <<sess, Mode, port, rx, pending>>

\* one RecordingEntry from buffer[0:8]
Entry(buf) ==
  [Voltage |-> Scaled(Uint32LE(buf, 0), -4), Current |-> Scaled(Uint32LE(buf, 4), -5)]

\* an inner loop that empties the buffer, leftover bytes included
RECURSIVE Drain_DropsLeftover(_, _)
Drain_DropsLeftover(buf, res) ==
  IF Len(buf) >= RecordSize
  THEN Drain_DropsLeftover(SubSeq(buf, RecordSize + 1, Len(buf)), Append(res, Entry(buf)))
  ELSE [buffer |-> <<>>, results |-> res]

\* the inner loop of GetRecordings: complete records leave the buffer in order
RECURSIVE Drain(_, _)
Drain(buf, res) ==
  IF Len(buf) >= RecordSize
  THEN Drain(SubSeq(buf, RecordSize + 1, Len(buf)), Append(res, Entry(buf)))
  ELSE [buffer |-> buf, results |-> res]

\* a read loop that goes on reading after a read of zero bytes
GetRecordings_Read_SkipsEmptyRead ==
  /\ op = "GetRecordings" /\ pc = "rec_read"
  /\ LET failed == PortFails
         got == IF failed THEN <<>> ELSE ReadBytes(RecordSize)
         tr == Append(trace, EvRead("recording", got, failed))
     IN IF failed
        THEN /\ Return(Nil, "failed to read recording chunk", tr)
             /\ UNCHANGED rx
        ELSE LET d == Drain(buffer \o got, results)
             IN /\ buffer' = d.buffer
                /\ results' = d.results
                /\ rx' = SubSeq(rx, Len(got) + 1, Len(rx))
                /\ trace' = tr
                /\ UNCHANGED <<op, pc, ret, response, size, firmwareData, bytesSent,
                               chunksSent>>
  /\ UNCHANGED codecVars
  /\ UNCHANGED webVars
  /\ UNCHANGED <<sess, Mode, port, pending, progress>>

\* a read loop that hands back the entries decoded so far with a read error
GetRecordings_Read_PartialOnError ==
  /\ op = "GetRecordings" /\ pc = "rec_read"
  /\ LET failed == PortFails
         got == IF failed THEN <<>> ELSE ReadBytes(RecordSize)
         tr == Append(trace, EvRead("recording", got, failed))
     IN IF failed
        THEN /\ Return(results, "failed to read recording chunk", tr)
             /\ UNCHANGED rx
        ELSE IF Len(got) = 0
        THEN /\ Return(results, NoErr, tr)
             /\ UNCHANGED rx
        ELSE LET d == Drain(buffer \o got, results)
             IN /\ buffer' = d.buffer
                /\ results' = d.results
                /\ rx' = SubSeq(rx, Len(got) + 1, Len(rx))
                /\ trace' = tr
                /\ UNCHANGED <<op, pc, ret, response, size, firmwareData, bytesSent,
                               chunksSent>>
  /\ UNCHANGED codecVars
  /\ UNCHANGED webVars
  /\ UNCHANGED <<sess, Mode, port, pending, progress>>

\* GetRecordings: one iteration of the read loop
GetRecordings_Read ==
  /\ op = "GetRecordings" /\ pc = "rec_read"
  /\ LET failed == PortFails
         got == IF failed THEN <<>> ELSE ReadBytes(RecordSize)
         tr == Append(trace, EvRead("recording", got, failed))
     IN IF failed
        THEN /\ Return(Nil, "failed to read recording chunk", tr)
             /\ UNCHANGED rx
        ELSE IF Len(got) = 0
        THEN /\ Return(results, NoErr, tr)
             /\ UNCHANGED rx
        ELSE LET d == Drain(buffer \o got, results)
             IN /\ buffer' = d.buffer
                /\ results' = d.results
                /\ rx' = SubSeq(rx, Len(got) + 1, Len(rx))
                /\ trace' = tr
                /\ UNCHANGED <<op, pc, ret, response, size, firmwareData, bytesSent,
                               chunksSent>>
  /\ UNCHANGED codecVars
  /\ UNCHANGED webVars
  /\ UNCHANGED <<sess, Mode, port, pending, progress>>

\* Close: port.Close()
Close ==
  /\ Idle /\ sess = "open"
  /\ port' = PortClosed
  /\ rx' = <<>>
  /\ ret' = [op |-> "Close", arg |-> <<>>, val |-> Nil,
             err |-> IF port.open THEN NoErr ELSE "port already closed"]
  /\ trace' = <<EvClose>>
  /\ progress' = <<>>
  /\ UNCHANGED codecVars
  /\ UNCHANGED webVars
  /\ UNCHANGED <<sess, Mode, pending, op, pc>>
  /\ UNCHANGED locals

Init == CodecIdle /\ SessionIdle /\ WebIdle

Next ==
  \/ \E opened \in BOOLEAN, configured \in BOOLEAN : NewTC66C_Open(opened, configured)
  \/ Query_Call
  \/ GetReading_Call
  \/ GetRecordings_Call
  \/ PreviousPage_Call
  \/ NextPage_Call
  \/ RotateScreen_Call
  \/ \E n \in FwLens : UpdateFirmware_Call(FwImage(n))
  \/ FlushSetTimeout
  \/ FlushRead
  \/ FlushRestore
  \/ WriteCommand
  \/ Settle
  \/ ReadResponse
  \/ Query_Return
  \/ NewTC66C_Return
  \/ GetReading_Decode
  \/ UpdateFirmware_Ready
  \/ UpdateFirmware_WriteChunk
  \/ UpdateFirmware_Ack
  \/ GetRecordings_Read
  \/ Close
  \/ DeviceSend
  \/ Unplug

Spec == Init /\ [][Next]_vars

\* ------------------------------------------------------------------------
\* GetRecordings against a device that streams in pieces of any size
\* ------------------------------------------------------------------------
StreamLens == {0, 3, RecordSize, MaxStreamLen}

\* GetRecordings on a firmware-mode session, sendCommand(CmdGetRec) done:
\* the device has a stream to send and the read loop is about to start
InitRecordings ==
  /\ CodecIdle
  /\ WebIdle
  /\ sess = "open"
  /\ Mode = ModeFirmware
  /\ port = [open |-> TRUE, timeout |-> ReadTimeoutMs, lost |-> FALSE]
  /\ rx = <<>>
  /\ \E n \in StreamLens : pending = IF n = 0 THEN <<>> ELSE <<RecStream(n)>>
  /\ op = "GetRecordings"
  /\ pc = "rec_read"
  /\ trace = <<EvTimeout(FlushTimeoutMs), EvRead("flush", <<>>, FALSE),
               EvTimeout(ReadTimeoutMs), EvWrite(CmdGetRec \o CRLF, FALSE), EvSleep>>
  /\ response = <<>>
  /\ size = 0
  /\ firmwareData = <<>>
  /\ bytesSent = 0
  /\ chunksSent = 0
  /\ progress = <<>>
  /\ buffer = <<>>
  /\ results = <<>>
  /\ ret = NoRet

\* the device puts the next k bytes of its stream on the wire, once the
\* bytes before them were read
DeviceStream(k) ==
  /\ ~PortFails
  /\ rx = <<>>
  /\ pending # <<>>
  /\ k <= Len(Head(pending))
  /\ rx' = SubSeq(Head(pending), 1, k)
  /\ pending' = IF k = Len(Head(pending)) THEN <<>>
                ELSE <<SubSeq(Head(pending), k + 1, Len(Head(pending)))>>
  /\ UNCHANGED codecVars
  /\ UNCHANGED webVars
  /\ UNCHANGED <<sess, Mode, port, op, pc, trace, response, size, firmwareData,
                 bytesSent, chunksSent, progress, buffer, results, ret>>

NextRecordings ==
  \/ \E k \in 1..RecordSize : DeviceStream(k)
  \/ GetRecordings_Read
  \/ Unplug

SpecRecordings == InitRecordings /\ [][NextRecordings]_vars

\* the read loop is sequential code: once port.Read can be called it is called
SpecRecordingsFair == SpecRecordings /\ WF_vars(GetRecordings_Read)

\* ------------------------------------------------------------------------
\* Web client (cmd_update.go): the message handler and the polling goroutines
\* ------------------------------------------------------------------------
Resp(cmd, ok) == [Command |-> cmd, Success |-> ok]

\* conn.WriteJSON(resp): nothing is written on a closed connection
Written(resp) == IF client.conn = "open" THEN resp ELSE lastResp

\* the next session NewTC66C hands to handlePoll, 0 when the bound is reached
NextDevice ==
  IF \E d \in Pollers : devices[d] = "none"
  THEN CHOOSE d \in Pollers : devices[d] = "none" /\ \A e \in 1..(d - 1) : devices[e] # "none"
  ELSE 0

\* the deferred c.pollTicker.Stop() of poller p: it stops the ticker p made
StopOwnTicker(p) ==
  IF client.pollTicker.owner = p THEN [client.pollTicker EXCEPT !.on = FALSE]
  ELSE client.pollTicker

\* handleWebSocket: conn.ReadJSON returned a message; handleMessage dispatches
HandleMessage(cmd, valid) ==
  /\ handler.pc = "read" /\ client.conn = "open"
  /\ valid \/ cmd \in {"list-serial", "poll"}
  /\ handler' =
       IF cmd = "stop" \/ (cmd = "poll" /\ valid)
       THEN [pc |-> "stop_lock", cmd |-> cmd, resp |-> NoResp, dev |-> 0]
       ELSE [pc |-> "send", cmd |-> cmd, dev |-> 0,
             resp |-> Resp(cmd, IF cmd = "unknown" THEN FALSE
                                ELSE IF cmd = "close" THEN TRUE ELSE valid)]
  /\ UNCHANGED <<client, pollers, devices, lastResp>>
  /\ UNCHANGED <<codecVars, sessVars>>

\* handleWebSocket: conn.ReadJSON returned an error; the loop ends and the
\* deferred cleanup runs
Disconnect ==
  /\ handler.pc = "read"
  /\ handler' = [pc |-> "stop_lock", cmd |-> "cleanup", resp |-> NoResp, dev |-> 0]
  /\ UNCHANGED <<client, pollers, devices, lastResp>>
  /\ UNCHANGED <<codecVars, sessVars>>

\* a stopPolling that takes no lock and sends no stop signal
StopPolling_Lock_Unsynchronized ==
  /\ handler.pc = "stop_lock"
  /\ client' = [client EXCEPT !.isPolling = FALSE]
  /\ handler' = [handler EXCEPT !.pc = "stop_close"]
  /\ UNCHANGED <<pollers, devices, lastResp>>
  /\ UNCHANGED <<codecVars, sessVars>>

\* stopPolling: c.mu.Lock(), then the test of c.isPolling
StopPolling_Lock ==
  /\ handler.pc = "stop_lock"
  /\ client.mu = Free
  /\ client' = [client EXCEPT !.mu = HandlerG]
  /\ handler' = [handler EXCEPT !.pc = IF client.isPolling THEN "stop_send" ELSE "stop_close"]
  /\ UNCHANGED <<pollers, devices, lastResp>>
  /\ UNCHANGED <<codecVars, sessVars>>

\* a stopPolling whose send does not wait for the poller: the signal stays
\* in the channel and poller p goes on polling
StopPolling_Signal_Buffered(p) ==
  /\ handler.pc = "stop_send"
  /\ pollers[p].pc # "none"
  /\ client' = [client EXCEPT !.isPolling = FALSE]
  /\ handler' = [handler EXCEPT !.pc = "stop_close"]
  /\ UNCHANGED <<pollers, devices, lastResp>>
  /\ UNCHANGED <<codecVars, sessVars>>

\* stopPolling: c.pollStop <- true meets poller p in its select; p returns
\* and its deferred Stop runs; then c.isPolling = false
StopPolling_Signal(p) ==
  /\ handler.pc = "stop_send"
  /\ pollers[p].pc = "select"
  /\ pollers' = [pollers EXCEPT ![p].pc = "done"]
  /\ client' = [client EXCEPT !.isPolling = FALSE, !.pollTicker = StopOwnTicker(p)]
  /\ handler' = [handler EXCEPT !.pc = "stop_close"]
  /\ UNCHANGED <<devices, lastResp>>
  /\ UNCHANGED <<codecVars, sessVars>>

\* stopPolling: the device is closed and cleared, the ticker stopped and
\* cleared, and the deferred Unlock runs; the caller goes on
StopPolling_Release ==
  /\ handler.pc = "stop_close"
  /\ devices' = IF client.device # 0 THEN [devices EXCEPT ![client.device] = "closed"]
                ELSE devices
  /\ client' = [client EXCEPT !.device = 0, !.pollTicker = NoTicker, !.mu = Free]
  /\ handler' =
       IF handler.cmd = "poll" THEN [handler EXCEPT !.pc = "connect"]
       ELSE IF handler.cmd = "stop"
         THEN [handler EXCEPT !.pc = "send", !.resp = Resp("stop", TRUE)]
       ELSE [handler EXCEPT !.pc = "conn_close"]
  /\ UNCHANGED <<pollers, lastResp>>
  /\ UNCHANGED <<codecVars, sessVars>>

\* handlePoll: tc66c.NewTC66C(req.Port) and the test of device.Mode; a device
\* in bootloader mode is closed at once
HandlePoll_Connect(outcome) ==
  /\ handler.pc = "connect"
  /\ outcome # "error" => NextDevice # 0
  /\ devices' =
       IF outcome = "error" THEN devices
       ELSE [devices EXCEPT ![NextDevice] = IF outcome = "firm" THEN "open" ELSE "closed"]
  /\ handler' =
       IF outcome = "firm" THEN [handler EXCEPT !.pc = "publish", !.dev = NextDevice]
       ELSE [handler EXCEPT !.pc = "send", !.resp = Resp("poll", FALSE)]
  /\ UNCHANGED <<client, pollers, lastResp>>
  /\ UNCHANGED <<codecVars, sessVars>>

\* handlePoll: c.device = device and c.isPolling = true, under c.mu
HandlePoll_Publish ==
  /\ handler.pc = "publish"
  /\ client.mu = Free
  /\ client' = [client EXCEPT !.device = handler.dev, !.isPolling = TRUE]
  /\ handler' = [handler EXCEPT !.pc = "send", !.resp = Resp("poll", TRUE)]
  /\ UNCHANGED <<pollers, devices, lastResp>>
  /\ UNCHANGED <<codecVars, sessVars>>

\* sendResponse called by the handler: Lock, WriteJSON, Unlock
Handler_SendResponse ==
  /\ handler.pc = "send"
  /\ client.mu = Free
  /\ lastResp' = Written(handler.resp)
  /\ handler' =
       [handler EXCEPT !.pc = IF handler.cmd = "poll" /\ handler.dev # 0 THEN "go"
                              ELSE IF handler.cmd = "close" THEN "conn_close"
                              ELSE "read"]
  /\ UNCHANGED <<client, pollers, devices>>
  /\ UNCHANGED <<codecVars, sessVars>>

\* handlePoll: go c.pollDevice(interval)
HandlePoll_Go ==
  /\ handler.pc = "go"
  /\ pollers' = [pollers EXCEPT ![handler.dev].pc = "start"]
  /\ handler' = [handler EXCEPT !.pc = "read", !.dev = 0]
  /\ UNCHANGED <<client, devices, lastResp>>
  /\ UNCHANGED <<codecVars, sessVars>>

\* conn.Close(): in handleClose, and after cleanup
Conn_Close ==
  /\ handler.pc = "conn_close"
  /\ client' = [client EXCEPT !.conn = "closed"]
  /\ handler' = [handler EXCEPT !.pc = IF handler.cmd = "cleanup" THEN "done" ELSE "read"]
  /\ UNCHANGED <<pollers, devices, lastResp>>
  /\ UNCHANGED <<codecVars, sessVars>>

\* pollDevice: c.pollTicker = time.NewTicker(interval), outside c.mu
PollDevice_Start(p) ==
  /\ pollers[p].pc = "start"
  /\ client' = [client EXCEPT !.pollTicker = [owner |-> p, on |-> TRUE]]
  /\ pollers' = [pollers EXCEPT ![p].pc = "select"]
  /\ UNCHANGED <<handler, devices, lastResp>>
  /\ UNCHANGED <<codecVars, sessVars>>

\* pollDevice: the select takes the case <-c.pollTicker.C
PollDevice_Tick(p) ==
  /\ pollers[p].pc = "select"
  /\ client.pollTicker.on
  /\ pollers' = [pollers EXCEPT ![p].pc = "tick_lock"]
  /\ UNCHANGED <<client, handler, devices, lastResp>>
  /\ UNCHANGED <<codecVars, sessVars>>

\* pollDevice: c.mu.Lock() and the test of c.device; with no device the
\* goroutine unlocks and returns
PollDevice_Lock(p) ==
  /\ pollers[p].pc = "tick_lock"
  /\ client.mu = Free
  /\ IF client.device = 0
     THEN /\ pollers' = [pollers EXCEPT ![p].pc = "done"]
          /\ client' = [client EXCEPT !.pollTicker = StopOwnTicker(p)]
     ELSE /\ pollers' = [pollers EXCEPT ![p].pc = "get_reading"]
          /\ client' = [client EXCEPT !.mu = p]
  /\ UNCHANGED <<handler, devices, lastResp>>
  /\ UNCHANGED <<codecVars, sessVars>>

\* pollDevice: c.device.GetReading() returns, then c.mu.Unlock(); a closed
\* session can only give an error
PollDevice_GetReading(p, ok) ==
  /\ pollers[p].pc = "get_reading"
  /\ ok => (client.device # 0 /\ devices[client.device] = "open")
  /\ pollers' = [pollers EXCEPT ![p] = [pc |-> "send", ok |-> ok]]
  /\ client' = [client EXCEPT !.mu = Free]
  /\ UNCHANGED <<handler, devices, lastResp>>
  /\ UNCHANGED <<codecVars, sessVars>>

\* sendResponse called by poller p with the poll-data message
PollDevice_SendResponse(p) ==
  /\ pollers[p].pc = "send"
  /\ client.mu = Free
  /\ lastResp' = Written(Resp("poll-data", pollers[p].ok))
  /\ pollers' = [pollers EXCEPT ![p] = [pc |-> "select", ok |-> FALSE]]
  /\ UNCHANGED <<client, handler, devices>>
  /\ UNCHANGED <<codecVars, sessVars>>

NextPoller ==
  \/ \E cmd \in {"list-serial", "poll", "stop", "close", "unknown"}, valid \in BOOLEAN :
       HandleMessage(cmd, valid)
  \/ Disconnect
  \/ StopPolling_Lock
  \/ \E p \in Pollers : StopPolling_Signal(p)
  \/ StopPolling_Release
  \/ \E outcome \in {"error", "boot", "firm"} : HandlePoll_Connect(outcome)
  \/ HandlePoll_Publish
  \/ Handler_SendResponse
  \/ HandlePoll_Go
  \/ Conn_Close
  \/ \E p \in Pollers : PollDevice_Start(p)
  \/ \E p \in Pollers : PollDevice_Tick(p)
  \/ \E p \in Pollers : PollDevice_Lock(p)
  \/ \E p \in Pollers, ok \in BOOLEAN : PollDevice_GetReading(p, ok)
  \/ \E p \in Pollers : PollDevice_SendResponse(p)

SpecPoller == Init /\ [][NextPoller]_vars

\* ------------------------------------------------------------------------
\* Codec claims (checked under SpecCodec)
\* ------------------------------------------------------------------------
MissingErrs == <<"missing pac1 block", "missing pac2 block", "missing pac3 block">>
ChecksumErrs ==
  <<"pac1 checksum verification failed", "pac2 checksum verification failed",
    "pac3 checksum verification failed">>

\* some slot of buf does not carry the tag of its position, or fails its checksum
HasBadBlock(buf) ==
  \E i \in 0..(NumBlocks - 1) :
    \/ PrefixOf(BlockAt(buf, i)) # Prefixes[i + 1]
    \/ CalculateCRC16Modbus(Slice(BlockAt(buf, i), 0, 60)) # Uint16LE(BlockAt(buf, i), 60)

\* the three slots of buf carry pac1, pac2 and pac3 in some order
TagsArePermutation(buf) ==
  \A k \in 1..NumBlocks :
    Cardinality({i \in 0..(NumBlocks - 1) : PrefixOf(BlockAt(buf, i)) = Prefixes[k]}) = 1

Parsed == step = "done" /\ out.fn \in {"ParseReading", "Decode"}

\* C1: ParseReading, and the decode made of it, returns a Reading with a nil
\* error or no Reading with an error; a wrong tag or a wrong checksum in any
\* of the three blocks means that no Reading is returned.
C1_ReadingOrError ==
  Parsed =>
    /\ (out.val.reading = NilReading) <=> (out.val.err # NoErr)
    /\ (out.fn = "ParseReading" /\ HasBadBlock(inbuf)) => out.val.reading = NilReading
    /\ (out.fn = "Decode" /\ HasBadBlock(canon)) => out.val.reading = NilReading

\* ParseReading stopped at the pac2 checksum, after the pac1 fields were decoded
C1_Witness ==
  /\ step = "done" /\ out.fn = "ParseReading"
  /\ out.val.err = "pac2 checksum verification failed"
  /\ out.val.reading = NilReading

\* C2: with the tags pac1, pac2, pac3 in any physical order, ReorderBlocks
\* yields the canonical buffer of the same block contents, and ReorderBlocks
\* followed by ParseReading gives the result of the canonical order.
C2_OrderIndependent ==
  (fixture = "packet" /\ step = "done" /\ TagsArePermutation(inbuf)) =>
    /\ out.fn = "ReorderBlocks" => out.val = [data |-> canon, err |-> NoErr]
    /\ out.fn = "Decode" => out.val = DecodeResponse(EcbEncrypt(canon, 0))

\* a packet in the physical order pac3, pac1, pac2 decoded to a Reading
C2_Witness ==
  /\ step = "done" /\ out.fn = "Decode" /\ order = <<3, 1, 2>>
  /\ out.val.err = NoErr /\ out.val.reading # NilReading

\* C3: a slot whose tag is replaced by an unknown tag or by another slot's tag
\* makes ReorderBlocks fail with the missing-block error of the replaced tag
\* and return no buffer, whichever slot it is.
C3_MissingTagFails ==
  (step = "done" /\ out.fn = "ReorderBlocks" /\ edit.kind = "tag") =>
    /\ out.val.data = NilBuf
    /\ out.val.err = MissingErrs[order[edit.slot + 1]]

\* the tag of the last slot became a duplicate of the first slot's tag
C3_Witness ==
  /\ step = "done" /\ out.fn = "ReorderBlocks" /\ edit.kind = "tag" /\ edit.slot = 2
  /\ PrefixOf(BlockAt(inbuf, 2)) = PrefixOf(BlockAt(inbuf, 0))
  /\ out.val.err \in {MissingErrs[k] : k \in 1..3}

IsChecksumErr(e) ==
  \E k \in 1..3 : e = "failed to parse reading: " \o ChecksumErrs[k]

\* C4 as stated: a changed byte at any position 0..59 gives a checksum error
C4_Original ==
  (step = "done" /\ out.fn = "Decode" /\ edit.kind = "byte" /\ edit.pos <= 59) =>
    IsChecksumErr(out.val.err)

\* C4 (amended): from a valid packet, one changed byte at position 4..59 of a
\* block makes the decode fail with that block's checksum error; one changed
\* tag byte (position 0..3) makes it fail with that block's missing-block
\* error; in both cases no Reading is returned.
C4_TamperFails ==
  (step = "done" /\ out.fn = "Decode" /\ edit.kind = "byte" /\ edit.pos <= 59) =>
    /\ out.val.reading = NilReading
    /\ edit.pos >= 4 =>
         out.val.err = "failed to parse reading: " \o ChecksumErrs[order[edit.slot + 1]]
    /\ edit.pos <= 3 =>
         out.val.err = "failed to decrypt packet: failed to reorder blocks: "
                         \o MissingErrs[order[edit.slot + 1]]

\* the last checksummed byte of the trailer block was changed
C4_Witness ==
  /\ step = "done" /\ out.fn = "Decode" /\ edit.kind = "byte" /\ edit.pos = 59
  /\ order[edit.slot + 1] = 3
  /\ out.val.err = "failed to parse reading: pac3 checksum verification failed"

\* reference CRC-16/MODBUS, bit-serial: the message bits enter one at a time,
\* least significant bit of each byte first
RefCrcBits[crc \in 0..65535, b \in 0..255, i \in 0..8] ==
  IF i = 8 THEN crc
  ELSE RefCrcBits[IF (crc % 2) # (b % 2) THEN Xor[crc \div 2, 40961] ELSE crc \div 2,
                  b \div 2, i + 1]

RefCrc(msg) ==
  LET loop[crc \in 0..65535, lo \in 0..Len(msg), hi \in 0..Len(msg)] ==
        IF hi = lo THEN crc
        ELSE IF hi = lo + 1 THEN RefCrcBits[crc, msg[hi], 0]
        ELSE loop[loop[crc, lo, (lo + hi) \div 2], (lo + hi) \div 2, hi]
  IN loop[65535, 0, Len(msg)]

\* C5: CalculateCRC16Modbus is the reference CRC-16/MODBUS: 0xFFFF for the
\* empty input, 0x40BF for the byte 0x00, 0x4B37 for "123456789".
C5_CrcIsModbus ==
  (fixture = "crc" /\ step = "done") =>
    /\ out.val = RefCrc(inbuf)
    /\ out.val \in 0..65535
    /\ inbuf = <<>> => out.val = 65535
    /\ inbuf = <<0>> => out.val = 16575
    /\ inbuf = <<49, 50, 51, 52, 53, 54, 55, 56, 57>> => out.val = 19255

C5_Witness == fixture = "crc" /\ step = "done" /\ inbuf = <<0>> /\ out.val = 16575


\* ------------------------------------------------------------------------
\* Session claims (checked under Spec)
\* ------------------------------------------------------------------------
\* the call the trace belongs to: the one in progress, else the last one
TraceOp == IF op # "none" THEN op ELSE ret.op

IsWrite(e) == e.k = "write"
IsRead(e) == e.k = "read"
IsFlushRead(e) == e.k = "read" /\ e.site = "flush"
IsReplyRead(e) == e.k = "read" /\ e.site # "flush"
IsCommandWrite(e) == e.k = "write" /\ e.bytes = CmdOf(TraceOp) \o CRLF

\* the bytes the response reads of a trace handed to the caller
RECURSIVE Received(_)
Received(tr) ==
  IF tr = <<>> THEN <<>>
  ELSE IF IsReplyRead(Head(tr)) THEN Head(tr).kept \o Received(Tail(tr))
  ELSE Received(Tail(tr))

FirmwareOnlyOps == {"GetReading", "GetRecordings", "PreviousPage", "NextPage", "RotateScreen"}

\* C6: construction writes the mode query at most once and exactly once
\* when it succeeds; it returns a session exactly when the four bytes read are
\* "firm" (Mode = Firmware) or "boot" (Mode = Bootloader); on any other
\* reply, a short reply or a failed read it returns an error and no session;
\* a session in a caller's hands never has Mode = Unknown.
C6_ConstructionDetectsMode ==
  /\ sess = "open" => Mode \in {ModeFirmware, ModeBootloader}
  /\ (op = "none" /\ ret.op = "NewTC66C") =>
       /\ \A i \in 1..Len(trace) : IsWrite(trace[i]) => trace[i].bytes = CmdQuery \o CRLF
       /\ Len(SelectSeq(trace, IsWrite)) <= 1
       /\ IF ret.err = NoErr
          THEN /\ ret.val = "tc"
               /\ sess = "open"
               /\ Len(SelectSeq(trace, IsWrite)) = 1
               /\ \/ Received(trace) = RespFirm /\ Mode = ModeFirmware
                  \/ Received(trace) = RespBoot /\ Mode = ModeBootloader
          ELSE /\ ret.val = Nil
               /\ sess = "failed"
               /\ ~port.open
       /\ Received(trace) \notin {RespFirm, RespBoot} => ret.err # NoErr

\* a construction that read "boot" in two reads and returned a session
C6_Witness ==
  /\ op = "none" /\ ret.op = "NewTC66C" /\ ret.err = NoErr
  /\ Mode = ModeBootloader
  /\ Len(SelectSeq(trace, IsReplyRead)) = 2

\* C7: once a session exists, no step of any of its operations changes Mode.
C7_ModeNeverChanges == [][sess = "open" => Mode' = Mode]_vars

\* a completed firmware update on a session that is still in bootloader mode
C7_Witness ==
  /\ op = "none" /\ ret.op = "UpdateFirmware" /\ ret.err = NoErr
  /\ Len(progress) = 3
  /\ Mode = ModeBootloader

\* C8: on a session whose Mode is not Firmware, GetReading, GetRecordings,
\* PreviousPage, NextPage and RotateScreen return the mode error and perform
\* no port operation: none of them is ever in progress, and the trace of the
\* returned call is empty.
C8_FirmwareOnlyGuard ==
  /\ op \in FirmwareOnlyOps => Mode = ModeFirmware
  /\ (op = "none" /\ ret.op \in FirmwareOnlyOps /\ Mode # ModeFirmware) =>
       /\ ret.err = ModeErr(Mode)
       /\ ret.val = Nil
       /\ trace = <<>>

\* GetRecordings refused on a bootloader-mode session
C8_Witness ==
  /\ op = "none" /\ ret.op = "GetRecordings"
  /\ Mode = ModeBootloader
  /\ ret.err = ModeErr(ModeBootloader)

\* C9 as stated: UpdateFirmware called with a non-empty buffer on a session
\* in Firmware mode goes on to write the update command.
C9_Original ==
  (op = "none" /\ ret.op = "UpdateFirmware" /\ ret.arg # <<>> /\ Mode = ModeFirmware) =>
    \E i \in 1..Len(trace) : IsWrite(trace[i]) /\ trace[i].bytes = CmdUpdate \o CRLF

\* C9, amended: UpdateFirmware checks Mode itself; on a session whose Mode is
\* not Bootloader it returns the mode error, whatever the buffer, and
\* performs no port operation; the update command is written only on a
\* Bootloader-mode session.
C9_UpdateChecksMode ==
  /\ op = "UpdateFirmware" => Mode = ModeBootloader
  /\ (op = "none" /\ ret.op = "UpdateFirmware" /\ Mode # ModeBootloader) =>
       /\ ret.err = UpdateModeErr(Mode)
       /\ trace = <<>>

\* UpdateFirmware refused on a firmware-mode session, buffer not empty
C9_Witness ==
  /\ op = "none" /\ ret.op = "UpdateFirmware"
  /\ Mode = ModeFirmware
  /\ Len(ret.arg) = FirmwareChunkSize + 1
  /\ ret.err = UpdateModeErr(ModeFirmware)
  /\ trace = <<>>

\* index of the command write in a trace, 0 if there is none
CommandWriteAt(tr) ==
  IF \E i \in 1..Len(tr) : IsCommandWrite(tr[i])
  THEN CHOOSE i \in 1..Len(tr) :
         IsCommandWrite(tr[i]) /\ \A j \in 1..(i - 1) : ~IsCommandWrite(tr[j])
  ELSE 0

\* C10: in the trace of every command exchange the drain comes first and
\* goes on until a read returns 0 bytes; then the command and CRLF are
\* written, once; the settle delay follows the write; every response read
\* comes after the delay; no drain read comes after the write.
C10_ExchangeOrder ==
  LET w == CommandWriteAt(trace)
      n == Len(trace)
  IN /\ \A i \in 1..n :
          /\ IsFlushRead(trace[i]) =>
               /\ i > 1
               /\ trace[i - 1] = EvTimeout(FlushTimeoutMs) \/ IsFlushRead(trace[i - 1])
               /\ IsFlushRead(trace[i - 1]) => trace[i - 1].n > 0
               /\ (trace[i].n > 0 /\ i < n) => IsFlushRead(trace[i + 1])
               /\ (trace[i].n = 0 /\ i < n) => trace[i + 1] = EvTimeout(ReadTimeoutMs)
               /\ w = 0 \/ i < w
          /\ IsReplyRead(trace[i]) => (w > 0 /\ i > w + 1)
          /\ IsCommandWrite(trace[i]) => i = w
     /\ w > 0 =>
          /\ w > 2
          /\ trace[w - 1] = EvTimeout(ReadTimeoutMs)
          /\ IsFlushRead(trace[w - 2]) /\ trace[w - 2].n = 0
          /\ (w < n /\ ~trace[w].failed) => trace[w + 1] = EvSleep
          /\ trace[w].failed => \A i \in (w + 1)..n : trace[i] = EvClose
     /\ pc \in {"sleep", "read", "rec_read", "resp", "chunk_write"} => w > 0

\* a reading returned after a drain that took two reads to come up empty
\* and a response that took two reads to fill
C10_Witness ==
  /\ op = "none" /\ ret.op = "GetReading" /\ ret.err = NoErr
  /\ Len(SelectSeq(trace, IsFlushRead)) = 3
  /\ Len(SelectSeq(trace, IsReplyRead)) = 2


\* index of the last write of a trace, 0 if there is none
LastWriteAt(tr) ==
  IF \E i \in 1..Len(tr) : IsWrite(tr[i])
  THEN CHOOSE i \in 1..Len(tr) : IsWrite(tr[i]) /\ \A j \in (i + 1)..Len(tr) : ~IsWrite(tr[j])
  ELSE 0

\* what the reads after the last write handed over, in arrival order
ReadSinceWrite(tr) == Received(SubSeq(tr, LastWriteAt(tr) + 1, Len(tr)))

\* the size the readResponse after the last write of a trace was called with
SizeAsked(tr) ==
  IF LastWriteAt(tr) > 0 /\ ~IsCommandWrite(tr[LastWriteAt(tr)]) THEN 2
  ELSE ResponseSize(TraceOp)

\* the ways the callers wrap an error of readResponse
ReadErrs(e) ==
  {e, "failed to query device mode: " \o e, "failed to read update mode response: " \o e}
    \cup {"failed to read response for chunk " \o ToString(k) \o ": " \o e : k \in 1..3}

\* the last port operation of a returned call, the closing of the port aside
LastOp(tr) ==
  LET t == SelectSeq(tr, LAMBDA e : e # EvClose)
  IN IF t = <<>> THEN EvClose ELSE t[Len(t)]

\* C11: while readResponse runs, the bytes accumulated are the reads since
\* the write, in arrival order, and fewer than size; the buffer it returns
\* has exactly size bytes; a read of zero bytes ends it with the timeout
\* error that carries the bytes received, fewer than size, and size.
C11_ReadResponseExact ==
  /\ pc \in {"read", "resp"} =>
       /\ response = ReadSinceWrite(trace)
       /\ size = SizeAsked(trace)
       /\ Len(response) <= size
       /\ pc = "read" => Len(response) < size
       /\ pc = "resp" => Len(response) = size
  /\ (op = "none" /\ ret.op = "Query" /\ ret.err = NoErr) =>
       /\ Len(ret.val) = 4
       /\ ret.val = ReadSinceWrite(trace)
  /\ (op = "none" /\ ret.op \in {"NewTC66C", "Query", "GetReading", "UpdateFirmware"}
        /\ IsReplyRead(LastOp(trace)) /\ LastOp(trace).n = 0 /\ ~LastOp(trace).failed) =>
       /\ Len(ReadSinceWrite(trace)) < SizeAsked(trace)
       /\ ret.err \in ReadErrs(TimeoutErr(Len(ReadSinceWrite(trace)), SizeAsked(trace)))
       /\ ret.val = Nil

\* GetReading timed out with the first half of the packet read
C11_Witness ==
  /\ op = "none" /\ ret.op = "GetReading"
  /\ ret.err = TimeoutErr(96, PacketSize)
  /\ Len(SelectSeq(trace, IsReplyRead)) = 2


IsChunkWrite(e) == e.k = "write" /\ e.bytes # CmdUpdate \o CRLF

\* the chunks a trace of UpdateFirmware wrote, in order
ChunksWritten(tr) == SelectSeq(tr, IsChunkWrite)

RECURSIVE ConcatBytes(_)
ConcatBytes(ws) == IF ws = <<>> THEN <<>> ELSE Head(ws).bytes \o ConcatBytes(Tail(ws))

CeilDiv(a, b) == (a + b - 1) \div b

\* C12: an UpdateFirmware of L >= 1 bytes that returned nil wrote
\* ceil(L/64) chunks, the k-th being the bytes from offset 64(k-1), 64 bytes
\* each except the last with the rest, and the chunks put together are the
\* image; while it runs, the chunks written so far are a prefix of the image.
C12_ChunksCoverImage ==
  /\ (op = "none" /\ ret.op = "UpdateFirmware" /\ ret.err = NoErr) =>
       LET ws == ChunksWritten(trace)
           L == Len(ret.arg)
           N == CeilDiv(L, FirmwareChunkSize)
       IN /\ L >= 1
          /\ Len(ws) = N
          /\ \A k \in 1..N :
               /\ ~ws[k].failed
               /\ Len(ws[k].bytes) =
                    IF k < N THEN FirmwareChunkSize ELSE L - FirmwareChunkSize * (N - 1)
               /\ ws[k].bytes = SubSeq(ret.arg, FirmwareChunkSize * (k - 1) + 1,
                                        FirmwareChunkSize * (k - 1) + Len(ws[k].bytes))
          /\ ConcatBytes(ws) = ret.arg
  /\ op = "UpdateFirmware" =>
       LET sofar == ConcatBytes(ChunksWritten(trace))
       IN /\ Len(sofar) <= Len(firmwareData)
          /\ sofar = SubSeq(firmwareData, 1, Len(sofar))

\* the largest image went out in three chunks, the last one short
C12_Witness ==
  /\ op = "none" /\ ret.op = "UpdateFirmware" /\ ret.err = NoErr
  /\ Len(ret.arg) = MaxFwLen
  /\ Len(ChunksWritten(trace)) = 3
  /\ Len(ChunksWritten(trace)[3].bytes) < FirmwareChunkSize


\* the length of the image of the UpdateFirmware in progress or just returned
FwLen == IF op = "UpdateFirmware" THEN Len(firmwareData) ELSE Len(ret.arg)

\* C13: the observer is called once per acknowledged chunk, after the
\* acknowledgement was read and before the next chunk is written: with a
\* chunk awaiting its acknowledgement the calls are one fewer than the chunks
\* written, otherwise as many; the i-th call reports ChunksSent = i,
\* BytesSent = min(64 i, L), TotalBytes = L, TotalChunks = ceil(L/64); a
\* successful update ends with BytesSent = TotalBytes and ChunksSent =
\* TotalChunks.
C13_ProgressPerChunk ==
  (op = "UpdateFirmware" \/ (op = "none" /\ ret.op = "UpdateFirmware")) =>
    LET written == Len(ChunksWritten(trace))
        calls == Len(progress)
    IN /\ \A i \in 1..calls :
            progress[i] = [BytesSent |-> Min(FirmwareChunkSize * i, FwLen),
                           TotalBytes |-> FwLen,
                           ChunksSent |-> i,
                           TotalChunks |-> CeilDiv(FwLen, FirmwareChunkSize)]
       /\ (op = "UpdateFirmware" /\ pc = "chunk_write") => calls = written
       /\ (op = "UpdateFirmware" /\ pc \in {"read", "resp"} /\ written > 0) =>
            calls = written - 1
       /\ written = 0 => calls = 0
       /\ (op = "none" /\ ret.err = NoErr) =>
            /\ calls = written
            /\ calls = CeilDiv(FwLen, FirmwareChunkSize)
            /\ progress[calls].BytesSent = progress[calls].TotalBytes
            /\ progress[calls].ChunksSent = progress[calls].TotalChunks
       /\ (op = "none" /\ ret.err # NoErr /\ written > 0) => calls = written - 1

\* a completed update of the largest image, the observer called three times
C13_Witness ==
  /\ op = "none" /\ ret.op = "UpdateFirmware" /\ ret.err = NoErr
  /\ Len(progress) = 3
  /\ progress[3].BytesSent = MaxFwLen
  /\ progress[2].BytesSent = 2 * FirmwareChunkSize


\* the positions of the chunk writes of a trace
ChunkWriteAt(tr) == {i \in 1..Len(tr) : IsChunkWrite(tr[i])}

\* C14: between two chunk writes that follow each other the reads handed
\* over exactly the two bytes "OK", and the earlier write succeeded: a chunk
\* is written only after the acknowledgement of the one before it was read
\* in full; a chunk whose acknowledgement is not yet complete is the last
\* write of the trace.
C14_StopAndWait ==
  LET at == ChunkWriteAt(trace)
  IN /\ \A i \in at : \A j \in at :
          (i < j /\ \A m \in (i + 1)..(j - 1) : m \notin at) =>
            /\ ~trace[i].failed
            /\ Received(SubSeq(trace, i + 1, j - 1)) = ChunkOKResponse
            /\ \A m \in (i + 1)..(j - 1) : IsReplyRead(trace[m]) /\ trace[m].n > 0
     /\ (op = "UpdateFirmware" /\ pc = "chunk_write" /\ at # {}) =>
          ReadSinceWrite(trace) = ChunkOKResponse

\* a second chunk written after an acknowledgement that came in two reads
C14_Witness ==
  /\ op = "UpdateFirmware"
  /\ Len(ChunksWritten(trace)) = 2
  /\ \E i \in ChunkWriteAt(trace) :
       /\ i + 3 \in ChunkWriteAt(trace)
       /\ trace[i + 1].n = 1 /\ trace[i + 2].n = 1


\* the errors UpdateFirmware returns when the reply to chunk k is not "OK",
\* does not come in full, or cannot be read
ChunkAckErrs(k) ==
  {ChunkReplyErr(k)}
    \cup {"failed to read response for chunk " \o ToString(k) \o ": " \o e :
            e \in {"failed to read response"} \cup {TimeoutErr(n, 2) : n \in 0..1}}

\* C15: an UpdateFirmware that returned after writing chunk k without
\* getting "OK" for it returned an error naming k; chunk k was written once,
\* as the k-th write, and nothing was written after it; the observer was
\* called for the chunks before k only.
C15_BadAckIsFatal ==
  (op = "none" /\ ret.op = "UpdateFirmware" /\ ret.err # NoErr
     /\ ChunksWritten(trace) # <<>> /\ ~trace[LastWriteAt(trace)].failed) =>
    LET ws == ChunksWritten(trace)
        k == Len(ws)
    IN /\ ReadSinceWrite(trace) # ChunkOKResponse
       /\ ret.err \in ChunkAckErrs(k)
       /\ \A i \in 1..k :
            ws[i].bytes = Chunk(ret.arg, FirmwareChunkSize * (i - 1))
       /\ \A m \in (LastWriteAt(trace) + 1)..Len(trace) : IsReplyRead(trace[m])
       /\ Len(progress) = k - 1
       /\ \A i \in 1..Len(progress) : progress[i].ChunksSent < k

\* the second chunk was answered "NG": one observer call, error for chunk 2
C15_Witness ==
  /\ op = "none" /\ ret.op = "UpdateFirmware"
  /\ ret.err = ChunkReplyErr(2)
  /\ Len(ChunksWritten(trace)) = 2
  /\ Len(progress) = 1


\* what was read after the update command and before the first chunk write
\* (or the end of the trace)
UpdateReply(tr) ==
  LET w == CommandWriteAt(tr)
      c == IF ChunkWriteAt(tr) = {} THEN Len(tr) + 1
           ELSE CHOOSE i \in ChunkWriteAt(tr) : \A j \in ChunkWriteAt(tr) : i <= j
  IN Received(SubSeq(tr, w + 1, c - 1))

\* C16: a chunk is written, and the observer called, only after the five
\* bytes read in answer to the update command were "uprdy"; an UpdateFirmware
\* that returned without having read "uprdy" returned an error.
C16_NoTransferWithoutReady ==
  (op = "UpdateFirmware" \/ (op = "none" /\ ret.op = "UpdateFirmware")) =>
    /\ (ChunkWriteAt(trace) # {} \/ progress # <<>> \/ pc = "chunk_write") =>
         /\ CommandWriteAt(trace) > 0
         /\ UpdateReply(trace) = UpdateModeResponse
    /\ (op = "none" /\ (CommandWriteAt(trace) = 0 \/ UpdateReply(trace) # UpdateModeResponse)) =>
         /\ ret.err # NoErr
         /\ ChunkWriteAt(trace) = {}
         /\ progress = <<>>

\* the device answered the update command with five other bytes
C16_Witness ==
  /\ op = "none" /\ ret.op = "UpdateFirmware"
  /\ Len(UpdateReply(trace)) = 5
  /\ UpdateReply(trace) # UpdateModeResponse
  /\ ret.err = "device replied with something else than 'uprdy'"


\* C17: UpdateFirmware with an empty image on a Bootloader-mode session
\* returns the empty-image error and performs no port operation: it never
\* gets as far as sendCommand.
C17_EmptyImageRefused ==
  /\ op = "UpdateFirmware" => firmwareData # <<>>
  /\ (op = "none" /\ ret.op = "UpdateFirmware" /\ ret.arg = <<>> /\ Mode = ModeBootloader) =>
       /\ ret.err = "firmware data is empty"
       /\ trace = <<>>
       /\ progress = <<>>

\* an empty image was refused on a bootloader-mode session with an open port
C17_Witness ==
  /\ op = "none" /\ ret.op = "UpdateFirmware" /\ ret.arg = <<>>
  /\ Mode = ModeBootloader /\ sess = "open" /\ ~PortFails
  /\ ret.err = "firmware data is empty"


\* ------------------------------------------------------------------------
\* Recording claims (checked under SpecRecordings)
\* ------------------------------------------------------------------------
\* the j-th record (from 0) of a stream, read at its own offset
RecordAt(stream, j) ==
  [Voltage |-> Scaled(Uint32LE(stream, RecordSize * j), -4),
   Current |-> Scaled(Uint32LE(stream, RecordSize * j + 4), -5)]

\* the entries of the complete records of a stream
EntriesOf(stream) == [j \in 1..(Len(stream) \div RecordSize) |-> RecordAt(stream, j - 1)]

\* C18: whatever sizes from 1 to 8 the reads had, GetRecordings returns,
\* at the zero-length read, the floor(T/8) entries of the T bytes read, the
\* j-th from bytes 8j..8j+7, in order and without an error; the T mod 8
\* bytes at the end are dropped; while it reads, the entries so far are those
\* of the bytes so far and the buffer holds the incomplete record.
C18_RecordingsBySplit ==
  LET stream == ReadSinceWrite(trace)
      T == Len(stream)
  IN /\ (op = "GetRecordings" /\ pc = "rec_read") =>
          /\ results = EntriesOf(stream)
          /\ buffer = SubSeq(stream, T - (T % RecordSize) + 1, T)
     /\ (op = "none" /\ ret.op = "GetRecordings" /\ ~LastOp(trace).failed) =>
          /\ ret.err = NoErr
          /\ Len(ret.val) = T \div RecordSize
          /\ ret.val = EntriesOf(stream)
          /\ LastOp(trace).n = 0

\* the longest stream, read in pieces that start with 3 and 8 bytes, gave
\* two entries and lost its last byte
C18_Witness ==
  /\ op = "none" /\ ret.op = "GetRecordings" /\ ret.err = NoErr
  /\ Len(ReadSinceWrite(trace)) = MaxStreamLen
  /\ Len(ret.val) = MaxStreamLen \div RecordSize
  /\ MaxStreamLen % RecordSize # 0
  /\ LET reads == SelectSeq(trace, IsReplyRead)
     IN reads[1].n = 3 /\ reads[2].n = 8


\* ------------------------------------------------------------------------
\* Field claims (checked under SpecCodec)
\* ------------------------------------------------------------------------
\* the four bytes at 0-based offset off of block blk (1..3) of the canonical
\* packet
FieldBytes(blk, off) ==
  SubSeq(canon, BlockSize * (blk - 1) + off + 1, BlockSize * (blk - 1) + off + 4)

\* a scaled value below 2^16 raw, as whole part and decimal digits
DecimalOf(x) ==
  LET p == IF x.exp = -2 THEN 100 ELSE IF x.exp = -4 THEN 10000 ELSE 100000
  IN [whole |-> x.raw.lo \div p, frac |-> x.raw.lo % p, digits |-> -x.exp]

\* C19: a packet with correct tags and checksums decodes without error, and
\* every field of the Reading is the little-endian uint32 at its offset,
\* times its scale: pac1 serial 12, runs 44, voltage 48 (1e-4), current 52
\* (1e-5), power 56 (1e-4); pac2 resistance 4 (1e-2), the energy counters 8,
\* 12, 16, 20, D+ 32 and D- 36 (1e-2). A raw voltage of 51234 is 5.1234 V.
C19_FieldsAtOffsets ==
  (fixture = "packet" /\ step = "done" /\ edit = NoEdit
     /\ (out.fn = "Decode" \/ (out.fn = "ParseReading" /\ order = <<1, 2, 3>>))) =>
    \E f \in Samples :
      LET r == out.val.reading
      IN /\ canon = Arrange(BlocksOf(f), <<1, 2, 3>>)
         /\ out.val.err = NoErr
         /\ FieldBytes(1, 12) = LE32(f.serial) /\ r.SerialNumber = f.serial
         /\ FieldBytes(1, 44) = LE32(f.runs) /\ r.NumRuns = f.runs
         /\ FieldBytes(1, 48) = LE32(f.voltage) /\ r.Voltage = [raw |-> f.voltage, exp |-> -4]
         /\ FieldBytes(1, 52) = LE32(f.current) /\ r.Current = [raw |-> f.current, exp |-> -5]
         /\ FieldBytes(1, 56) = LE32(f.power) /\ r.Power = [raw |-> f.power, exp |-> -4]
         /\ FieldBytes(2, 4) = LE32(f.resistance)
         /\ r.Resistance = [raw |-> f.resistance, exp |-> -2]
         /\ FieldBytes(2, 8) = LE32(f.g0mah) /\ r.Group0MAh = f.g0mah
         /\ FieldBytes(2, 12) = LE32(f.g0mwh) /\ r.Group0MWh = f.g0mwh
         /\ FieldBytes(2, 16) = LE32(f.g1mah) /\ r.Group1MAh = f.g1mah
         /\ FieldBytes(2, 20) = LE32(f.g1mwh) /\ r.Group1MWh = f.g1mwh
         /\ FieldBytes(2, 32) = LE32(f.dplus) /\ r.DPlusVoltage = [raw |-> f.dplus, exp |-> -2]
         /\ FieldBytes(2, 36) = LE32(f.dminus)
         /\ r.DMinusVoltage = [raw |-> f.dminus, exp |-> -2]
         /\ FieldBytes(1, 48) = <<34, 200, 0, 0>> =>
              DecimalOf(r.Voltage) = [whole |-> 5, frac |-> 1234, digits |-> 4]

\* the packet in the order pac2, pac3, pac1 decoded to 5.1234 V
C19_Witness ==
  /\ step = "done" /\ out.fn = "Decode" /\ edit = NoEdit /\ order = <<2, 3, 1>>
  /\ out.val.err = NoErr
  /\ FieldBytes(1, 48) = <<34, 200, 0, 0>>
  /\ DecimalOf(out.val.reading.Voltage) = [whole |-> 5, frac |-> 1234, digits |-> 4]


\* ------------------------------------------------------------------------
\* Session claims, continued (checked under Spec)
\* ------------------------------------------------------------------------
PageOps == {"PreviousPage", "NextPage", "RotateScreen"}

\* C20: on a Firmware-mode session PreviousPage, NextPage and RotateScreen
\* make one write, of their command and CRLF, and no read after it; they
\* return nil exactly when the write succeeded, whether or not the device
\* answers.
C20_PageCommandsFireAndForget ==
  /\ op \in PageOps => pc \notin {"read", "resp", "rec_read", "chunk_write"}
  /\ (op = "none" /\ ret.op \in PageOps /\ Mode = ModeFirmware) =>
       LET ws == SelectSeq(trace, IsWrite)
       IN /\ Len(ws) = 1
          /\ ws[1].bytes = CmdOf(ret.op) \o CRLF
          /\ SelectSeq(trace, IsReplyRead) = <<>>
          /\ \A i \in (LastWriteAt(trace) + 1)..Len(trace) : ~IsRead(trace[i])
          /\ (ret.err = NoErr) <=> ~ws[1].failed
          /\ ret.err # NoErr => ret.err = "failed to write command"

\* NextPage returned nil and the device's "OK" sits unread in the port
C20_Witness ==
  /\ op = "none" /\ ret.op = "NextPage" /\ ret.err = NoErr
  /\ Mode = ModeFirmware
  /\ rx = <<79, 75>>
  /\ trace[Len(trace)] = EvSleep


\* C21: whenever ReorderBlocks succeeds, its output carries pac1, pac2, pac3
\* at slots 0, 1, 2, each output slot is byte-identical to the input slot that
\* carried that tag, the input buffer is left as it was, and ReorderBlocks
\* applied to its own output returns the same bytes.
C21_ReorderIsPermutation ==
  [][(ApplyReorderBlocks /\ out'.val.err = NoErr) =>
       LET res == out'.val.data
       IN /\ inbuf' = inbuf
          /\ Len(res) = PacketSize
          /\ \A k \in 1..NumBlocks :
               /\ PrefixOf(BlockAt(res, k - 1)) = Prefixes[k]
               /\ \E i \in 0..(NumBlocks - 1) :
                    /\ PrefixOf(BlockAt(inbuf, i)) = Prefixes[k]
                    /\ BlockAt(res, k - 1) = BlockAt(inbuf, i)
          /\ ReorderBlocks(res) = [data |-> res, err |-> NoErr]]_vars

\* ReorderBlocks moved every block: the input came in the order pac2, pac3, pac1
C21_Witness ==
  /\ step = "done" /\ out.fn = "ReorderBlocks" /\ out.val.err = NoErr
  /\ order = <<2, 3, 1>>
  /\ \A i \in 0..(NumBlocks - 1) : BlockAt(out.val.data, i) # BlockAt(inbuf, i)


\* the errors GetReading can wrap out of DecryptPacket and out of ParseReading
DecryptErrs ==
  { "failed to decrypt packet: failed to reorder blocks: " \o MissingErrs[k] : k \in 1..3 }
ParseChecksumErrs == { "failed to parse reading: " \o ChecksumErrs[k] : k \in 1..3 }

\* C22: in the GetReading pipeline, whenever DecryptPacket succeeds the buffer
\* handed to ParseReading has length 192 and the tags pac1, pac2, pac3 at
\* offsets 0, 64, 128; ParseReading's size error and its invalid-prefix errors
\* never come out, the only ParseReading failures reported are checksum
\* failures.
C22_ParseFailsOnlyOnChecksum ==
  (fixture = "packet" /\ step = "done" /\ out.fn = "Decode") =>
    LET decrypted == DecryptPacket(EcbEncrypt(inbuf, 0))
    IN /\ decrypted.err = NoErr =>
            /\ Len(decrypted.data) = PacketSize
            /\ \A k \in 1..NumBlocks :
                 Slice(decrypted.data, (k - 1) * BlockSize, (k - 1) * BlockSize + 4) = Prefixes[k]
            /\ ParseReading(decrypted.data).err \in
                 {NoErr} \cup {ChecksumErrs[k] : k \in 1..3}
            /\ out.val.err \in {NoErr} \cup ParseChecksumErrs
       /\ decrypted.err # NoErr => out.val.err \in DecryptErrs

\* a packet received in the order pac3, pac1, pac2 was decrypted and put in
\* order, and ParseReading then refused it for the checksum of its second block
C22_Witness ==
  /\ step = "done" /\ out.fn = "Decode" /\ order = <<3, 1, 2>>
  /\ DecryptPacket(EcbEncrypt(inbuf, 0)).err = NoErr
  /\ out.val.err = "failed to parse reading: pac2 checksum verification failed"


\* C23: the decoded temperature is the unscaled 32-bit magnitude at block-2
\* offset 28 when the sign flag at offset 24 is 0, and the negated magnitude
\* for every nonzero value of the flag, not only 1; the TemperatureSign field
\* keeps the raw flag value.
C23_TemperatureSign ==
  (fixture = "packet" /\ step = "done" /\ out.fn \in {"ParseReading", "Decode"}
     /\ out.val.err = NoErr) =>
    LET r == out.val.reading
    IN /\ LE32(r.TemperatureSign) = FieldBytes(2, 24)
       /\ LE32(r.Temperature.mag) = FieldBytes(2, 28)
       /\ r.Temperature.neg <=> (FieldBytes(2, 24) # <<0, 0, 0, 0>>)

\* a sign flag of 65536, nonzero only in its third byte, negated a magnitude of 27
C23_Witness ==
  /\ step = "done" /\ out.fn = "Decode" /\ out.val.err = NoErr /\ edit.kind = "temp"
  /\ FieldBytes(2, 24) = <<0, 0, 1, 0>>
  /\ out.val.reading.TemperatureSign = U32(1, 0)
  /\ out.val.reading.Temperature = [neg |-> TRUE, mag |-> U32(0, 27)]


\* ------------------------------------------------------------------------
\* Read-loop claims (checked under SpecRecordingsFair and Spec)
\* ------------------------------------------------------------------------
\* the reads of the recording loop, in order
RecordingReads(tr) == SelectSeq(tr, LAMBDA e : IsRead(e) /\ e.site = "recording")

\* a read that ends the loop: zero bytes, or an error
EndsLoop(e) == e.n = 0 \/ e.failed

\* C24: GetRecordings returns at the first zero-length read and performs no
\* channel read after it; it does not return before a read is zero-length or
\* fails, and on a channel that at some point delivers such a read it
\* terminates; between two reads its buffer holds fewer than 8 bytes.
C24_ReadLoopEnds ==
  /\ [](LET reads == RecordingReads(trace)
        IN /\ (op = "GetRecordings" /\ pc = "rec_read") =>
                /\ \A i \in 1..Len(reads) : ~EndsLoop(reads[i])
                /\ Len(buffer) < RecordSize
           /\ (op = "none" /\ ret.op = "GetRecordings") =>
                /\ reads # <<>>
                /\ trace[Len(trace)] = reads[Len(reads)]
                /\ \A i \in 1..Len(reads) : EndsLoop(reads[i]) <=> i = Len(reads)
                /\ reads[Len(reads)].failed <=> ret.err # NoErr)
  /\ <>(op = "none" /\ ret.op = "GetRecordings")

\* the device fell silent in the middle of a record: the zero-length read
\* came after two reads of data and ended the loop with one entry
C24_Witness ==
  /\ op = "none" /\ ret.op = "GetRecordings" /\ ret.err = NoErr
  /\ pending # <<>>
  /\ LET reads == RecordingReads(trace)
     IN /\ Len(reads) = 3
        /\ reads[1].n = 5 /\ reads[2].n = 7 /\ reads[3].n = 0
  /\ Len(ret.val) = 1


\* C25: when a read of the recording stream fails, GetRecordings returns that
\* error and no entries: the entries decoded from the earlier reads of the
\* same call are not returned with the error.
C25_ReadErrorDropsEntries ==
  (op = "none" /\ ret.op = "GetRecordings") =>
    LET reads == RecordingReads(trace)
    IN /\ (reads # <<>> /\ reads[Len(reads)].failed) =>
            /\ ret.val = Nil
            /\ ret.err = "failed to read recording chunk"
       /\ ret.err # NoErr => ret.val = Nil

\* the port failed after two complete records had been read and decoded
C25_Witness ==
  /\ op = "none" /\ ret.op = "GetRecordings"
  /\ Len(EntriesOf(ReadSinceWrite(trace))) = 2
  /\ LastOp(trace).failed
  /\ ret.val = Nil /\ ret.err = "failed to read recording chunk"


\* ------------------------------------------------------------------------
\* Reserved bytes (checked under SpecCodec)
\* ------------------------------------------------------------------------
\* buf with bytes 62 and 63 of slot i replaced by the pair p[i + 1]
SetReserved(buf, p) ==
  [j \in 1..Len(buf) |->
     IF (j - 1) % BlockSize >= 62
     THEN p[((j - 1) \div BlockSize) + 1][((j - 1) % BlockSize) - 61]
     ELSE buf[j]]

\* buffers that differ from buf only in bytes 62 and 63 of its blocks
ReservedVariants(buf) ==
  { SetReserved(buf, <<(<<255, 1>>), (<<0, 7>>), (<<128, 0>>)>>),
    SetReserved(buf, <<(<<0, 0>>), (<<0, 0>>), (<<0, 0>>)>>) }

\* C26: the outcome of decoding a packet (success, the Reading produced, or
\* the failure) does not depend on bytes 62 and 63 of any block: plaintexts
\* that differ only in those bytes decode identically, and a block whose
\* reserved bytes are nonzero is accepted.
C26_ReservedBytesIgnored ==
  (fixture = "packet" /\ step = "done") =>
    /\ out.fn = "Decode" =>
         \A v \in ReservedVariants(inbuf) : DecodeResponse(EcbEncrypt(v, 0)) = out.val
    /\ out.fn = "ParseReading" =>
         \A v \in ReservedVariants(inbuf) : ParseReading(v) = out.val
    /\ (out.fn = "Decode" /\ edit.kind = "byte" /\ edit.pos >= 62) => out.val.err = NoErr

\* the last byte of the trailer block was changed from 0 to 1 and the packet
\* decoded to a Reading
C26_Witness ==
  /\ step = "done" /\ out.fn = "Decode" /\ edit.kind = "byte" /\ edit.pos = 63
  /\ order[edit.slot + 1] = 3
  /\ BlockAt(canon, 2)[64] = 1
  /\ out.val.err = NoErr /\ out.val.reading # NilReading


\* ------------------------------------------------------------------------
\* Flush claims (checked under Spec)
\* ------------------------------------------------------------------------
\* the error of sendCommand, as the callers hand it on
SendCommandErrs ==
  { "failed to write command", "failed to query device mode: failed to write command",
    "failed to send update command: failed to write command" }

WaitsForMutex(p) == pollers[p].pc \in {"tick_lock", "send"} /\ client.mu # Free

\* stopPolling holds c.mu and waits in c.pollStop <- true, a poller waits for
\* c.mu, no goroutine is on its way to the select that would receive, and
\* no step of the client is possible
StopPollingStuck ==
  /\ handler.pc = "stop_send" /\ client.mu = HandlerG
  /\ \E p \in Pollers : WaitsForMutex(p)
  /\ \A p \in Pollers : pollers[p].pc \notin {"start", "select"}
  /\ ~ENABLED NextPoller

\* C29 as stated: stopPolling always returns; in no reachable state are the
\* message handler, sending on pollStop with the client mutex held, and the
\* polling goroutine both blocked for good
C29_Original == ~StopPollingStuck


\* C30: GetReading is never invoked on a session whose channel has been
\* closed: a poller calls GetReading only while it holds the client mutex, on
\* a device it found non-nil and that is open; stopPolling closes and clears
\* the device only while it holds the same mutex, so a closed session is never
\* the one the client publishes.
C30_NoReadingOnClosedSession ==
  /\ \A p \in Pollers :
       pollers[p].pc = "get_reading" =>
         /\ client.mu = p
         /\ client.device # 0
         /\ devices[client.device] = "open"
  /\ handler.pc \in {"stop_send", "stop_close"} => client.mu = HandlerG
  /\ \A d \in Pollers : devices[d] = "closed" => client.device # d

\* stopPolling waits for the mutex while the poller is inside GetReading on
\* the open device
C30_Witness ==
  /\ handler.pc = "stop_lock" /\ handler.cmd = "stop"
  /\ \E p \in Pollers :
       /\ pollers[p].pc = "get_reading" /\ client.mu = p
       /\ client.device = p /\ devices[p] = "open"

\* C31: for one web client at most one polling goroutine is in its loop and
\* at most one GetReading call is in flight on the session at any time; from
\* the connect of a new poll up to its go statement no earlier goroutine is
\* still polling, it has received the stop signal or left on a nil device;
\* a polling goroutine reads the session its own poll request opened
Polling(p) == pollers[p].pc \in {"start", "select", "tick_lock", "get_reading", "send"}

StartsPoller ==
  \/ handler.pc \in {"connect", "publish", "go"}
  \/ handler.pc = "send" /\ handler.cmd = "poll" /\ handler.dev # 0

C31_OnePollerOneReading ==
  /\ Cardinality({p \in Pollers : Polling(p)}) <= 1
  /\ Cardinality({p \in Pollers : pollers[p].pc = "get_reading"}) <= 1
  /\ StartsPoller => \A p \in Pollers : ~Polling(p)
  /\ \A p \in Pollers : Polling(p) => client.device = p

\* the second poll of the client is reading while the goroutine of the first
\* has received its stop signal
C31_Witness ==
  /\ pollers[1].pc = "done" /\ devices[1] = "closed"
  /\ pollers[2].pc = "get_reading" /\ devices[2] = "open"
  /\ client.device = 2 /\ client.mu = 2

====
